---------------------------- MODULE Spec2Model ----------------------------
(***************************************************************************)
(* Ledger model of the rwa_platform Move package:                          *)
(*   carbon_nft_manager  (mint_nft, retire_nft, freeze_my_certificate)     *)
(*   marketplace         (list_item, buy_item, cancel_listing), the        *)
(*                       revision that keeps the shared ListingRegistry.   *)
(* and the transfer of a `key, store` object by its owner, which the host  *)
(* offers outside the package (public_transfer).                           *)
(* Every entry function is one atomic transaction.  A transaction that the *)
(* host rejects while resolving its object arguments, or that aborts in an *)
(* assert!, commits nothing; only its outcome is recorded in lastTx.       *)
(* Gas is not modelled.                                                    *)
(***************************************************************************)
EXTENDS Naturals, Sequences, FiniteSets, TLC

\* ------------------------------------------------------------- bounds --
MaxObjects == 4          \* object ids the transaction context may create
MaxPrice   == 1          \* asking prices range over 0..MaxPrice

Addresses       == {"backend", "alice", "bob"}
\* The backend wallet deploys the package and holds the AdminCap; it owns no
\* coin and receives no NFT, so the market is between the users.
Deployer        == "backend"
Users           == Addresses \ {Deployer}
Prices          == 0..MaxPrice
\* tx_context::epoch_timestamp_ms is an input of the transaction, like its
\* sender: the host supplies the time of the epoch the call is made in.
\* Each verified event is submitted in an epoch of its own and retirements
\* are made in a later one, so that the timestamps found in the objects tell
\* the calls apart.
EpochTimestamps == {1000, 2000, 3000}
EpochOfEvent(v) == IF v = "evt-001" THEN 1000 ELSE 2000
RetireEpochs    == EpochTimestamps \ {1000, 2000}

\* The mint calls the backend may be asked to make: recipient, amount,
\* activity code, verification id.
MintRequest(r, a, t, v) ==
    [recipient |-> r, amount_kg_co2e |-> a, activity_type |-> t,
     verification_id |-> v]
MintRequests ==
    { MintRequest("alice",   5, 1, "evt-001"),
      MintRequest("bob",     3, 2, "evt-002"),
      MintRequest("alice",   0, 1, "evt-001") }

\* Coin<IOTA> objects of the wallets: a fixed set, each with a fixed value.
Coins     == {"coin0", "coin1", "coin2", "coin3"}
CoinValue == [c \in Coins |-> CASE c = "coin0" -> 0
                                [] c = "coin1" -> 1
                                [] c = "coin2" -> 2
                                [] c = "coin3" -> 1]
InitCoinOwner == [c \in Coins |-> CASE c = "coin0" -> "bob"
                                    [] c = "coin1" -> "bob"
                                    [] c = "coin2" -> "alice"
                                    [] c = "coin3" -> "alice"]

\* ------------------------------------------------------ abort codes ----
EInvalidAmount                  == 1
EVerificationIdAlreadyProcessed == 2
EIncorrectPaymentAmount         == 101
ENotSeller                      == 102

\* -------------------------------------------------------------- state --
VARIABLES
    adminCapOwner,         \* address that owns the AdminCap object
    processed_ids,         \* VerificationRegistry.processed_ids : vid -> bool
    nfts,                  \* address-owned CarbonCreditNFT objects: id -> [obj, owner]
    listings,              \* shared Listing objects: id -> Listing (wrapping its nft)
    active_listings,       \* ListingRegistry.active_listings : listing id -> seller
    active_listing_ids,    \* ListingRegistry.active_listing_ids : vector<ID>
    certs,                 \* RetirementCertificate objects: id -> [obj, owner]
    coinOwner,             \* owner of every Coin<IOTA> object
    deleted,               \* ids whose UID was deleted: id -> type of the object
    ids_created,           \* fresh-id counter of the transaction context
    lastTx,                \* the last transaction: call, arguments, outcome, events
    ui                     \* React state and timers of the frontend page in use

ledger == <<adminCapOwner, processed_ids, nfts, listings, active_listings,
            active_listing_ids, certs, coinOwner, deleted, ids_created>>
vars == <<adminCapOwner, processed_ids, nfts, listings, active_listings,
          active_listing_ids, certs, coinOwner, deleted, ids_created,
          lastTx, ui>>

\* No page of the frontend is open.
NoPage == [page |-> "none"]

\* --------------------------------------------- framework primitives ----
EmptyMap == [x \in {} |-> TRUE]

table_contains(t, k) == k \in DOMAIN t
table_add(t, k, v) == [x \in DOMAIN t \cup {k} |-> IF x = k THEN v ELSE t[x]]
\* A removal that leaves the entry in the table.
table_remove_Kept(t, k) == t
table_remove(t, k) == [x \in DOMAIN t \ {k} |-> t[x]]

vector_push_back(v, e) == Append(v, e)

\* vector::index_of: <<found, index>>, the index 0-based as in Move.
vector_index_of(v, e) ==
    IF \E i \in 1..Len(v) : v[i] = e
    THEN <<TRUE, (CHOOSE i \in 1..Len(v) :
                     v[i] = e /\ \A j \in 1..(i - 1) : v[j] # e) - 1>>
    ELSE <<FALSE, 0>>

\* A swap that copies the last element into slot i and truncates nothing.
vector_swap_remove_NoTruncate(v, i) ==
    [j \in 1..Len(v) |-> IF j = i + 1 THEN v[Len(v)] ELSE v[j]]

\* vector::swap_remove(v, i), i 0-based: the last element takes slot i.
vector_swap_remove(v, i) ==
    [j \in 1..(Len(v) - 1) |-> IF j = i + 1 THEN v[Len(v)] ELSE v[j]]

\* An event put in front of the events emitted before it.
event_emit_Prepended(events, ev) == <<ev>> \o events

\* An event that is never recorded.
event_emit_Dropped(events, ev) == events

\* event::emit(ev): the event follows those the transaction emitted so far.
event_emit(events, ev) == Append(events, ev)

\* object::new(ctx)
object_new == ids_created + 1

\* An object passed by value that stays with its owner as well.
take_object_Kept(store, id) == store

\* An owned object passed by value leaves its owner's store.
take_object(store, id) == [x \in DOMAIN store \ {id} |-> store[x]]

\* transfer::public_transfer / transfer::transfer of obj to recipient.
transfer_to(store, obj, recipient) ==
    [x \in DOMAIN store \cup {obj.id} |->
        IF x = obj.id THEN [obj |-> obj, owner |-> recipient] ELSE store[x]]

\* A host that lets any sender pass an object owned by an address.
ResolveOwned_AnySender(store, id, sender) ==
    IF id \notin DOMAIN store THEN "ObjectNotFound"
    ELSE IF store[id].owner = "Immutable" THEN "Immutable"
    ELSE "ok"

\* How the host resolves an address-owned object argument for the sender.
ResolveOwned(store, id, sender) ==
    IF id \notin DOMAIN store THEN "ObjectNotFound"
    ELSE IF store[id].owner = "Immutable" THEN "Immutable"
    ELSE IF store[id].owner # sender THEN "NotOwner"
    ELSE "ok"

\* How the host resolves a shared object argument.
ResolveShared(store, id) ==
    IF id \in DOMAIN store THEN "ok" ELSE "ObjectNotFound"

\* ------------------------------------------------- transaction outcome --
Tx(fn, sender, args, status, code, events) ==
    [fn |-> fn, sender |-> sender, args |-> args,
     status |-> status, code |-> code, events |-> events]

\* The transaction commits nothing.
Reject(fn, sender, args, status, code) ==
    /\ lastTx' = Tx(fn, sender, args, status, code, <<>>)
    /\ UNCHANGED ledger
    /\ UNCHANGED ui

\* ---------------------------------------------------------------- init --
\* The ledger once the package is published and both `init`s have run.
Published ==
    /\ adminCapOwner = Deployer
    /\ processed_ids = EmptyMap
    /\ nfts = EmptyMap
    /\ listings = EmptyMap
    /\ active_listings = EmptyMap
    /\ active_listing_ids = <<>>
    /\ certs = EmptyMap
    /\ coinOwner = InitCoinOwner
    /\ deleted = EmptyMap
    /\ ids_created = 0
    /\ lastTx = Tx("init", Deployer, EmptyMap, "success", 0, <<>>)

Init ==
    /\ Published
    /\ ui = NoPage

\* ------------------------------------------------------------ mint_nft --
\* mint_nft without its registry check.
mint_nft_abort_NoRegistryCheck(registry, amount_kg_co2e, verification_id) ==
    IF ~(amount_kg_co2e > 0) THEN EInvalidAmount ELSE 0

\* mint_nft without its amount check.
mint_nft_abort_NoAmountCheck(registry, amount_kg_co2e, verification_id) ==
    IF table_contains(registry, verification_id)
    THEN EVerificationIdAlreadyProcessed
    ELSE 0

\* The asserts of mint_nft, in order: the abort code, or 0.
mint_nft_abort(registry, amount_kg_co2e, verification_id) ==
    IF ~(amount_kg_co2e > 0) THEN EInvalidAmount
    ELSE IF table_contains(registry, verification_id)
         THEN EVerificationIdAlreadyProcessed
    ELSE 0

\* A mint_nft that asks for no AdminCap.
holds_admin_cap_Anyone(owner, sender) == TRUE

\* `_admin_cap: &AdminCap`: the sender can pass the AdminCap only if the
\* sender owns it.
holds_admin_cap(owner, sender) == owner = sender

\* A mint_nft that takes the AdminCap by value and drops it.
borrow_admin_cap_Consumed(owner) == "nobody"

\* The AdminCap is passed by reference: it stays with its owner.
borrow_admin_cap(owner) == owner

\* mint_nft forgetting the registry write.
mark_processed_Skipped(registry, verification_id) == registry

\* A registry that remembers the last verification id only.
mark_processed_Reset(registry, verification_id) ==
    [v \in {verification_id} |-> TRUE]

\* "Mark this verification ID as processed".
mark_processed(registry, verification_id) ==
    table_add(registry, verification_id, TRUE)

mint_nft(sender, epoch_timestamp_ms, recipient, amount_kg_co2e, activity_type, verification_id) ==
    LET args == [recipient |-> recipient, amount_kg_co2e |-> amount_kg_co2e,
                 activity_type |-> activity_type,
                 verification_id |-> verification_id]
        code == mint_nft_abort(processed_ids, amount_kg_co2e, verification_id)
        nft  == [id |-> object_new,
                 amount_kg_co2e |-> amount_kg_co2e,
                 activity_type |-> activity_type,
                 verification_id |-> verification_id,
                 issuance_timestamp_ms |-> epoch_timestamp_ms]
        ev   == [type |-> "MintNFTEvent", nft_id |-> nft.id,
                 recipient |-> recipient, amount_kg_co2e |-> amount_kg_co2e,
                 verification_id |-> verification_id]
    IN
    IF ~holds_admin_cap(adminCapOwner, sender)
    THEN Reject("mint_nft", sender, args, "NotOwner", 0)
    ELSE IF code # 0
    THEN Reject("mint_nft", sender, args, "MoveAbort", code)
    ELSE /\ ids_created < MaxObjects
         /\ processed_ids' = mark_processed(processed_ids, verification_id)
         /\ nfts' = transfer_to(nfts, nft, recipient)
         /\ ids_created' = ids_created + 1
         /\ adminCapOwner' = borrow_admin_cap(adminCapOwner)
         /\ lastTx' = Tx("mint_nft", sender, args, "success", 0,
                      event_emit(<<>>, ev))
         /\ UNCHANGED ui
         /\ UNCHANGED <<listings, active_listings, active_listing_ids, certs,
                        coinOwner, deleted>>

\* ----------------------------------------------------------- list_item --
\* A Listing that is built and never shared.
share_object_Dropped(store, obj) == store

\* transfer::public_share_object(listing)
share_object(store, obj) ==
    [x \in DOMAIN store \cup {obj.id} |-> IF x = obj.id THEN obj ELSE store[x]]

\* A listing that copies the NFT and leaves the original with the seller.
deposit_nft_Copied(store, id) == store

\* `nft: nft`: the NFT is moved into the Listing and leaves the seller.
deposit_nft(store, id) == take_object(store, id)

\* An index that records the publisher of the package as the seller.
register_listing_Publisher(table, listing_id, seller) ==
    table_add(table, listing_id, Deployer)

\* table::add(&mut registry.active_listings, listing_id, sender)
register_listing(table, listing_id, seller) ==
    table_add(table, listing_id, seller)

list_item(sender, nft_id, price_micro_iota) ==
    LET args    == [nft |-> nft_id, price_micro_iota |-> price_micro_iota]
        input   == ResolveOwned(nfts, nft_id, sender)
        nft     == nfts[nft_id].obj
        listing == [id |-> object_new,
                    nft_id |-> nft.id,
                    nft |-> nft,
                    price_micro_iota |-> price_micro_iota,
                    seller |-> sender]
        ev      == [type |-> "ListingCreated", listing_id |-> listing.id,
                    nft_id |-> nft.id, seller |-> sender,
                    price_micro_iota |-> price_micro_iota]
    IN
    IF input # "ok"
    THEN Reject("list_item", sender, args, input, 0)
    ELSE /\ ids_created < MaxObjects
         /\ nfts' = deposit_nft(nfts, nft_id)
         /\ active_listings' = register_listing(active_listings, listing.id, sender)
         /\ active_listing_ids' = vector_push_back(active_listing_ids, listing.id)
         /\ listings' = share_object(listings, listing)
         /\ ids_created' = ids_created + 1
         /\ lastTx' = Tx("list_item", sender, args, "success", 0,
                      event_emit(<<>>, ev))
         /\ UNCHANGED ui
         /\ UNCHANGED <<adminCapOwner, processed_ids, certs, coinOwner,
                        deleted>>

\* ------------------------------------------- buy_item, cancel_listing --
\* A deletion that leaves no record of the id.
object_delete_Forgotten(tomb, id, type) == tomb

\* object::delete(uid): the id is gone for good, remembered with its type.
object_delete(tomb, id, type) ==
    [x \in DOMAIN tomb \cup {id} |-> IF x = id THEN type ELSE tomb[x]]

\* A Listing that survives its own destructuring.
unpack_listing_Kept(store, id) == store

\* Destructuring a Listing removes the shared object.
unpack_listing(store, id) == [x \in DOMAIN store \ {id} |-> store[x]]

\* Dropping the last id of the vector instead of the one looked up.
remove_listing_id_PopBack(ids, listing_obj_id) ==
    IF Len(ids) = 0 THEN ids ELSE SubSeq(ids, 1, Len(ids) - 1)

\* "Remove listing ID from the vector": index_of, then swap_remove if found.
remove_listing_id(ids, listing_obj_id) ==
    LET r == vector_index_of(ids, listing_obj_id)
    IN IF r[1] THEN vector_swap_remove(ids, r[2]) ELSE ids

\* buy_item accepting any payment that covers the price.
buy_item_abort_AtLeastPrice(listing, payment) ==
    IF ~(CoinValue[payment] >= listing.price_micro_iota)
    THEN EIncorrectPaymentAmount
    ELSE 0

\* An escrow that releases every NFT to the publisher of the package.
release_nft_Publisher(store, nft, recipient) ==
    transfer_to(store, nft, Deployer)

\* transfer::public_transfer(nft, buyer) / (nft, seller): out of escrow.
release_nft(store, nft, recipient) == transfer_to(store, nft, recipient)

\* buy_item refusing a payment of value 0.
buy_item_abort_NonZero(listing, payment) ==
    IF ~(CoinValue[payment] = listing.price_micro_iota /\ CoinValue[payment] > 0)
    THEN EIncorrectPaymentAmount
    ELSE 0

\* The assert of buy_item: the abort code, or 0.
buy_item_abort(listing, payment) ==
    IF ~(CoinValue[payment] = listing.price_micro_iota)
    THEN EIncorrectPaymentAmount
    ELSE 0

\* A payment that never leaves the buyer.
pay_seller_NotPaid(owners, payment, seller) == owners

\* A payment that stays with the registry of the marketplace.
pay_seller_Retained(owners, payment, seller) ==
    [owners EXCEPT ![payment] = "ListingRegistry"]

\* transfer::public_transfer(payment, seller)
pay_seller(owners, payment, seller) == [owners EXCEPT ![payment] = seller]

buy_item(sender, listing_id, payment) ==
    LET args    == [listing |-> listing_id, payment |-> payment]
        buyer   == sender
        listing == listings[listing_id]
        ev      == [type |-> "ItemSold", listing_id |-> listing_id,
                    nft_id |-> listing.nft_id, seller |-> listing.seller,
                    buyer |-> buyer,
                    price_micro_iota |-> listing.price_micro_iota]
    IN
    IF coinOwner[payment] # sender
    THEN Reject("buy_item", sender, args, "NotOwner", 0)
    ELSE IF ResolveShared(listings, listing_id) # "ok"
    THEN Reject("buy_item", sender, args, ResolveShared(listings, listing_id), 0)
    ELSE IF buy_item_abort(listing, payment) # 0
    THEN Reject("buy_item", sender, args, "MoveAbort",
                buy_item_abort(listing, payment))
    ELSE IF ~table_contains(active_listings, listing_id)
    THEN Reject("buy_item", sender, args, "TableAbort", 0)
    ELSE /\ listings' = unpack_listing(listings, listing_id)
         /\ active_listings' = table_remove(active_listings, listing_id)
         /\ nfts' = release_nft(nfts, listing.nft, buyer)
         /\ coinOwner' = pay_seller(coinOwner, payment, listing.seller)
         /\ deleted' = object_delete(deleted, listing_id, "Listing")
         /\ active_listing_ids' = remove_listing_id(active_listing_ids, listing_id)
         /\ lastTx' = Tx("buy_item", sender, args, "success", 0,
                      event_emit(<<>>, ev))
         /\ UNCHANGED ui
         /\ UNCHANGED <<adminCapOwner, processed_ids, certs, ids_created>>

\* cancel_listing without its seller check.
cancel_listing_abort_NoCheck(listing, sender) == 0

\* cancel_listing with its check inverted: anyone but the seller passes.
cancel_listing_abort_Inverted(listing, sender) ==
    IF sender = listing.seller THEN ENotSeller ELSE 0

\* The assert of cancel_listing: the abort code, or 0.
cancel_listing_abort(listing, sender) ==
    IF ~(sender = listing.seller) THEN ENotSeller ELSE 0

cancel_listing(sender, listing_id) ==
    LET args    == [listing |-> listing_id]
        listing == listings[listing_id]
        ev      == [type |-> "ListingCancelled", listing_id |-> listing_id,
                    nft_id |-> listing.nft_id, seller |-> listing.seller]
    IN
    IF ResolveShared(listings, listing_id) # "ok"
    THEN Reject("cancel_listing", sender, args,
                ResolveShared(listings, listing_id), 0)
    ELSE IF cancel_listing_abort(listing, sender) # 0
    THEN Reject("cancel_listing", sender, args, "MoveAbort",
                cancel_listing_abort(listing, sender))
    ELSE IF ~table_contains(active_listings, listing_id)
    THEN Reject("cancel_listing", sender, args, "TableAbort", 0)
    ELSE /\ listings' = unpack_listing(listings, listing_id)
         /\ active_listings' = table_remove(active_listings, listing_id)
         /\ nfts' = release_nft(nfts, listing.nft, listing.seller)
         /\ deleted' = object_delete(deleted, listing_id, "Listing")
         /\ active_listing_ids' = remove_listing_id(active_listing_ids, listing_id)
         /\ lastTx' = Tx("cancel_listing", sender, args, "success", 0,
                      event_emit(<<>>, ev))
         /\ UNCHANGED ui
         /\ UNCHANGED <<adminCapOwner, processed_ids, certs, coinOwner,
                        ids_created>>

\* ---------------------------------------------------------- retire_nft --
\* A certificate that records its own id as the id of the retired nft.
new_certificate_OwnId(id, nft, retirer, retirement_timestamp) ==
    [id |-> id,
     original_nft_id |-> id,
     retirer_address |-> retirer,
     retired_amount_kg_co2e |-> nft.amount_kg_co2e,
     original_verification_id |-> nft.verification_id,
     retirement_timestamp_ms |-> retirement_timestamp]

\* The RetirementCertificate retire_nft builds for a retired nft.
\* A certificate that records no amount.
new_certificate_NoAmount(id, nft, retirer, retirement_timestamp) ==
    [id |-> id,
     original_nft_id |-> nft.id,
     retirer_address |-> retirer,
     retired_amount_kg_co2e |-> 0,
     original_verification_id |-> nft.verification_id,
     retirement_timestamp_ms |-> retirement_timestamp]

new_certificate(id, nft, retirer, retirement_timestamp) ==
    [id |-> id,
     original_nft_id |-> nft.id,
     retirer_address |-> retirer,
     retired_amount_kg_co2e |-> nft.amount_kg_co2e,
     original_verification_id |-> nft.verification_id,
     retirement_timestamp_ms |-> retirement_timestamp]

\* A retirement that leaves no trace of the burnt NFT.
delete_nft_Skipped(tomb, id) == tomb

\* object::delete(id) of the destructured CarbonCreditNFT.
delete_nft(tomb, id) == object_delete(tomb, id, "CarbonCreditNFT")

retire_nft(sender, epoch_timestamp_ms, nft_id) ==
    LET args    == [nft |-> nft_id]
        input   == ResolveOwned(nfts, nft_id, sender)
        nft     == nfts[nft_id].obj
        retirer == sender
        certificate ==
            new_certificate(object_new, nft, retirer, epoch_timestamp_ms)
        ev1 == [type |-> "RetireNFTEvent", retirer |-> retirer,
                nft_id |-> nft.id, amount_kg_co2e |-> nft.amount_kg_co2e,
                verification_id |-> nft.verification_id]
        ev2 == [type |-> "CertificateMinted", certificate_id |-> certificate.id,
                retirer_address |-> retirer,
                retired_amount_kg_co2e |-> nft.amount_kg_co2e,
                original_verification_id |-> nft.verification_id,
                retirement_timestamp_ms |-> epoch_timestamp_ms]
    IN
    IF input # "ok"
    THEN Reject("retire_nft", sender, args, input, 0)
    ELSE /\ ids_created < MaxObjects
         /\ nfts' = take_object(nfts, nft_id)
         /\ deleted' = delete_nft(deleted, nft_id)
         /\ certs' = transfer_to(certs, certificate, retirer)
         /\ ids_created' = ids_created + 1
         /\ lastTx' = Tx("retire_nft", sender, args, "success", 0,
                      event_emit(event_emit(<<>>, ev1), ev2))
         /\ UNCHANGED ui
         /\ UNCHANGED <<adminCapOwner, processed_ids, listings, active_listings,
                        active_listing_ids, coinOwner>>

\* ----------------------------------------------- freeze_my_certificate --
\* A freeze that leaves the object with its owner, as it was.
freeze_object_Noop(store, id) == store

\* transfer::freeze_object(certificate): the object becomes immutable.
freeze_object(store, id) == [store EXCEPT ![id].owner = "Immutable"]

freeze_my_certificate(sender, certificate_id) ==
    LET args  == [certificate |-> certificate_id]
        input == ResolveOwned(certs, certificate_id, sender)
    IN
    IF input # "ok"
    THEN Reject("freeze_my_certificate", sender, args, input, 0)
    ELSE /\ certs' = freeze_object(certs, certificate_id)
         /\ lastTx' = Tx("freeze_my_certificate", sender, args, "success", 0, <<>>)
         /\ UNCHANGED ui
         /\ UNCHANGED <<adminCapOwner, processed_ids, nfts, listings,
                        active_listings, active_listing_ids, coinOwner,
                        deleted, ids_created>>

\* ------------------------------------------------------ public_transfer --
\* The structs declared `has key, store`: their address-owned objects can be
\* sent on by the owner with transfer::public_transfer (the TransferObjects
\* command of a transaction), outside the entry functions of the package.
StoreTypes == {"AdminCap", "CarbonCreditNFT", "RetirementCertificate"}
\* Wallets an AdminCap may be handed to.
CapHolders == {Deployer, "alice"}

\* Whether the struct is declared with the `store` ability.
has_store(type) == type \in StoreTypes

\* An owned store: the AdminCap is the single object 0 of its own store.
OwnedStore(type) ==
    CASE type = "AdminCap" -> [x \in {0} |-> [obj |-> [id |-> 0], owner |-> adminCapOwner]]
      [] type = "CarbonCreditNFT" -> nfts
      [] type = "RetirementCertificate" -> certs

public_transfer(sender, type, object_id, recipient) ==
    LET args  == [type |-> type, object |-> object_id, recipient |-> recipient]
        store == OwnedStore(type)
        input == ResolveOwned(store, object_id, sender)
    IN
    IF input # "ok"
    THEN Reject("public_transfer", sender, args, input, 0)
    ELSE IF ~has_store(type)
    THEN Reject("public_transfer", sender, args, "NoStoreAbility", 0)
    ELSE /\ adminCapOwner' = IF type = "AdminCap" THEN recipient ELSE adminCapOwner
         /\ nfts' = IF type = "CarbonCreditNFT"
                    THEN transfer_to(nfts, nfts[object_id].obj, recipient)
                    ELSE nfts
         /\ certs' = IF type = "RetirementCertificate"
                     THEN transfer_to(certs, certs[object_id].obj, recipient)
                     ELSE certs
         /\ lastTx' = Tx("public_transfer", sender, args, "success", 0, <<>>)
         /\ UNCHANGED ui
         /\ UNCHANGED <<processed_ids, listings, active_listings,
                        active_listing_ids, coinOwner, deleted, ids_created>>

\* ------------------------------------------------ ids a caller may name --
EscrowedNfts == { listings[l].nft : l \in DOMAIN listings }
IdsOfType(type) == { i \in DOMAIN deleted : deleted[i] = type }
NftIds == DOMAIN nfts \cup { n.id : n \in EscrowedNfts }
              \cup IdsOfType("CarbonCreditNFT")
ListingIds == DOMAIN listings \cup IdsOfType("Listing")
CertificateIds == DOMAIN certs
\* The wallet pays with a coin of its own.
OwnCoins(a) == { c \in Coins : coinOwner[c] = a }

\* ---------------------------------------------------------------- next --
\* The entry functions of the package, called by the wallets.
EntryFunctions ==
    \/ \E s \in Addresses, m \in MintRequests :
          mint_nft(s, EpochOfEvent(m.verification_id), m.recipient,
                   m.amount_kg_co2e, m.activity_type, m.verification_id)
    \/ \E s \in Users, n \in NftIds, p \in Prices : list_item(s, n, p)
    \/ \E s \in Users, l \in ListingIds :
          \E c \in OwnCoins(s) : buy_item(s, l, c)
    \/ \E s \in Users, l \in ListingIds : cancel_listing(s, l)
    \/ \E s \in Users, now \in RetireEpochs, n \in NftIds :
          retire_nft(s, now, n)
    \/ \E s \in Users, c \in CertificateIds : freeze_my_certificate(s, c)

\* A user sends an object of theirs to the other user.
TransferObjects ==
    \/ \E s \in Users, n \in DOMAIN nfts : \E r \in Users \ {s} :
          public_transfer(s, "CarbonCreditNFT", n, r)
    \/ \E s \in Users, c \in CertificateIds : \E r \in Users \ {s} :
          public_transfer(s, "RetirementCertificate", c, r)

\* The holder of the AdminCap hands it to another wallet.
TransferAdminCap ==
    \E s \in CapHolders : \E r \in CapHolders \ {s} :
        public_transfer(s, "AdminCap", 0, r)

Next == EntryFunctions \/ TransferObjects

Spec == Init /\ [][Next]_vars

\* The package with the hand-over of the AdminCap between wallets.
NextCap == EntryFunctions \/ TransferAdminCap

SpecCap == Init /\ [][NextCap]_vars

\* ======================================================================
\* Views of the ledger used by the properties
\* ======================================================================
Range(f) == { f[x] : x \in DOMAIN f }

\* Every Certificate minted so far, as <<object id, verification id>>: the
\* owned ones, the escrowed ones, and the retired ones (a retirement
\* certificate is never destroyed and names the NFT it replaced).
OwnedMinted ==
    { <<nfts[i].obj.id, nfts[i].obj.verification_id>> : i \in DOMAIN nfts }
EscrowedMinted ==
    { <<n.id, n.verification_id>> : n \in EscrowedNfts }
RetiredMinted ==
    { <<certs[c].obj.original_nft_id, certs[c].obj.original_verification_id>> :
          c \in DOMAIN certs }
EverMinted == OwnedMinted \cup EscrowedMinted \cup RetiredMinted

\* The step is an execution of mint_nft: the AdminCap was presented.
MintExecuted == lastTx'.fn = "mint_nft" /\ lastTx'.sender = adminCapOwner
Aborted(tx, code) == tx.status = "MoveAbort" /\ tx.code = code

\* ======================================================================
\* C1
\* ======================================================================
OneCertificatePerVerificationId ==
    \A x \in EverMinted, y \in EverMinted : x[2] = y[2] => x[1] = y[1]

\* C1, as stated: every executed mint whose verification id is already in
\* the registry fails with EVerificationIdAlreadyProcessed and commits
\* nothing, and no two Certificates ever minted share a verification id.
C1_AsStated ==
    [][ /\ (MintExecuted /\ table_contains(processed_ids,
                                            lastTx'.args.verification_id))
            => (/\ Aborted(lastTx', EVerificationIdAlreadyProcessed)
                /\ UNCHANGED ledger)
        /\ OneCertificatePerVerificationId' ]_vars

\* C1, amended: an executed mint whose verification id is already in the
\* registry always fails and commits nothing, with
\* EVerificationIdAlreadyProcessed when its amount is positive (a zero
\* amount is rejected first, with EInvalidAmount); in every state no two
\* Certificates ever minted (owned, escrowed or retired) share a
\* verification id.
C1_MintOncePerVerificationId ==
    [][ /\ (MintExecuted /\ table_contains(processed_ids,
                                            lastTx'.args.verification_id))
            => (/\ lastTx'.status = "MoveAbort"
                /\ lastTx'.args.amount_kg_co2e > 0
                      => lastTx'.code = EVerificationIdAlreadyProcessed
                /\ UNCHANGED ledger)
        /\ \/ UNCHANGED <<nfts, listings, certs>>
           \/ OneCertificatePerVerificationId' ]_vars

\* A mint of a verification id is rejected as a duplicate after the first
\* Certificate with that id was sold and then retired by its buyer.
C1_Witness ==
    /\ lastTx.fn = "mint_nft"
    /\ Aborted(lastTx, EVerificationIdAlreadyProcessed)
    /\ \E c \in DOMAIN certs :
          /\ certs[c].obj.original_verification_id = lastTx.args.verification_id
          /\ certs[c].obj.retirer_address # lastTx.args.recipient

\* ======================================================================
\* C8
\* ======================================================================
\* The step created a Certificate of amount a for the recipient r.
MintedFor(r, a) ==
    /\ lastTx'.status = "success"
    /\ object_new \notin DOMAIN nfts
    /\ DOMAIN nfts' = DOMAIN nfts \cup {object_new}
    /\ nfts'[object_new].owner = r
    /\ nfts'[object_new].obj.id = object_new
    /\ nfts'[object_new].obj.amount_kg_co2e = a

\* C8, as stated: an executed mint with amount 0 fails with EInvalidAmount
\* and commits nothing; with any amount a > 0 it succeeds and the new
\* Certificate has amount a.
C8_AsStated ==
    [][ MintExecuted =>
          IF lastTx'.args.amount_kg_co2e = 0
          THEN Aborted(lastTx', EInvalidAmount) /\ UNCHANGED ledger
          ELSE MintedFor(lastTx'.args.recipient, lastTx'.args.amount_kg_co2e)
      ]_vars

\* C8, amended: an executed mint with amount 0 fails with EInvalidAmount and
\* leaves the registry and every Certificate unchanged; with amount a > 0
\* and a verification id not yet in the registry it succeeds and the new
\* Certificate, owned by the recipient, has amount a.
C8_MintAmount ==
    [][ MintExecuted =>
          IF lastTx'.args.amount_kg_co2e = 0
          THEN Aborted(lastTx', EInvalidAmount) /\ UNCHANGED ledger
          ELSE ~table_contains(processed_ids, lastTx'.args.verification_id)
               => MintedFor(lastTx'.args.recipient,
                            lastTx'.args.amount_kg_co2e)
      ]_vars

\* A zero-amount mint was rejected with EInvalidAmount while a Certificate
\* minted with a positive amount exists.
C8_Witness ==
    /\ lastTx.fn = "mint_nft"
    /\ Aborted(lastTx, EInvalidAmount)
    /\ lastTx.args.amount_kg_co2e = 0
    /\ \E i \in DOMAIN nfts : nfts[i].obj.amount_kg_co2e > 0

\* ======================================================================
\* C9
\* ======================================================================
\* C9: in every state the verification ids in the registry are exactly the
\* verification ids of the Certificates ever minted (owned, escrowed or
\* retired).
C9_RegistryMatchesMinted ==
    DOMAIN processed_ids = { x[2] : x \in EverMinted }

\* Both verification ids are used: one Certificate is retired, the other is
\* in escrow.
C9_Witness ==
    /\ Cardinality(DOMAIN processed_ids) = 2
    /\ RetiredMinted # {}
    /\ EscrowedMinted # {}

\* ======================================================================
\* C2
\* ======================================================================
\* The Listings that hold the Certificate n.
Holders(n) == { l \in DOMAIN listings : listings[l].nft.id = n }
LiveNftIds == DOMAIN nfts \cup { n.id : n \in EscrowedNfts }
LiveVerificationIds ==
    { x[2] : x \in OwnedMinted } \cup { x[2] : x \in EscrowedMinted }

C3_IndexMatchesListings ==
    /\ DOMAIN active_listings = DOMAIN listings
    /\ Range(active_listing_ids) = DOMAIN listings
    /\ Len(active_listing_ids) = Cardinality(Range(active_listing_ids))

\* The older of two active listings was bought or cancelled: the younger
\* one was swapped into its slot.
C3_Witness ==
    /\ lastTx.fn \in {"buy_item", "cancel_listing"}
    /\ lastTx.status = "success"
    /\ Len(active_listing_ids) = 1
    /\ lastTx.args.listing < active_listing_ids[1]

\* ======================================================================
\* C4
\* ======================================================================
\* The step is an execution of buy_item on the existing Listing it names.
BuyExecuted ==
    lastTx'.fn = "buy_item" /\ lastTx'.args.listing \in DOMAIN listings
BoughtListing == listings[lastTx'.args.listing]

\* C4: a buy of an existing Listing whose payment value differs from the
\* price aborts with EIncorrectPaymentAmount and commits nothing: the
\* Listing, the registry, the escrowed Certificate and the owner of every
\* coin are unchanged.
C4_PriceMismatchChangesNothing ==
    [][ (BuyExecuted /\ CoinValue[lastTx'.args.payment]
                           # BoughtListing.price_micro_iota)
        => (/\ Aborted(lastTx', EIncorrectPaymentAmount)
            /\ UNCHANGED ledger) ]_vars

\* A buy that offered more than the price was rejected; the Listing is
\* still there.
C4_Witness ==
    /\ lastTx.fn = "buy_item"
    /\ Aborted(lastTx, EIncorrectPaymentAmount)
    /\ lastTx.args.listing \in DOMAIN listings
    /\ CoinValue[lastTx.args.payment]
          > listings[lastTx.args.listing].price_micro_iota
    /\ coinOwner[lastTx.args.payment] = lastTx.sender

\* ======================================================================
\* C5
\* ======================================================================
RECURSIVE SumValues(_)
SumValues(cs) ==
    IF cs = {} THEN 0
    ELSE LET c == CHOOSE x \in cs : TRUE
         IN CoinValue[c] + SumValues(cs \ {c})
\* The balance of address a when the coins are owned as in owners.
Balance(owners, a) == SumValues({ c \in Coins : owners[c] = a })

\* C5: a buy of an existing Listing with payment equal to the price
\* succeeds; the escrowed Certificate, unchanged, becomes the buyer's; the
\* seller's balance grows by the price and the buyer's shrinks by the
\* price (all other balances are unchanged); the Listing is destroyed and
\* its id is in neither active_listings nor active_listing_ids.
C5_BuyTransfers ==
    [][ (BuyExecuted /\ CoinValue[lastTx'.args.payment]
                           = BoughtListing.price_micro_iota)
        => LET l      == lastTx'.args.listing
               price  == BoughtListing.price_micro_iota
               seller == BoughtListing.seller
               buyer  == lastTx'.sender
               nft    == BoughtListing.nft
           IN /\ lastTx'.status = "success"
              /\ nft.id \in DOMAIN nfts'
              /\ nfts'[nft.id] = [obj |-> nft, owner |-> buyer]
              /\ \A a \in Addresses :
                    Balance(coinOwner', a) + (IF a = buyer THEN price ELSE 0)
                      = Balance(coinOwner, a) + (IF a = seller THEN price ELSE 0)
              /\ l \notin DOMAIN listings'
              /\ l \in DOMAIN deleted'
              /\ l \notin DOMAIN active_listings'
              /\ l \notin Range(active_listing_ids') ]_vars

\* A buyer other than the seller bought a Listing with a positive price.
C5_Witness ==
    /\ lastTx.fn = "buy_item" /\ lastTx.status = "success"
    /\ lastTx.events[1].price_micro_iota > 0
    /\ lastTx.events[1].seller # lastTx.sender
    /\ coinOwner[lastTx.args.payment] = lastTx.events[1].seller
    /\ nfts[lastTx.events[1].nft_id].owner = lastTx.sender

\* ======================================================================
\* C6
\* ======================================================================
\* C6: a cancel of an existing Listing by anyone but its recorded seller
\* aborts with ENotSeller and commits nothing; a cancel that removes the
\* Listing was sent by the seller.
C6_OnlySellerCancels ==
    [][ (lastTx'.fn = "cancel_listing"
           /\ lastTx'.args.listing \in DOMAIN listings)
        => LET listing == listings[lastTx'.args.listing]
           IN /\ lastTx'.sender # listing.seller
                    => (/\ Aborted(lastTx', ENotSeller)
                        /\ UNCHANGED ledger)
              /\ lastTx'.args.listing \notin DOMAIN listings'
                    => lastTx'.sender = listing.seller ]_vars

\* A cancel by another principal was rejected; the Listing still holds the
\* Certificate.
C6_Witness ==
    /\ lastTx.fn = "cancel_listing"
    /\ Aborted(lastTx, ENotSeller)
    /\ lastTx.args.listing \in DOMAIN listings
    /\ lastTx.args.listing \in DOMAIN active_listings
    /\ listings[lastTx.args.listing].seller # lastTx.sender

\* ======================================================================
\* C7
\* ======================================================================
\* C7: transactions are serialized, so of two buys of one Listing with
\* payment equal to the price one runs first.  The buy that finds the
\* Listing succeeds: the Listing is destroyed, the Certificate is the
\* buyer's and only the payment coin changes owner, to the seller.  A buy
\* that names a destroyed Listing is rejected as object-not-found and
\* commits nothing.
C7_OneBuyerWins ==
    [][ lastTx'.fn = "buy_item"
        => LET l == lastTx'.args.listing
           IN /\ (l \in DOMAIN listings
                     /\ CoinValue[lastTx'.args.payment]
                           = listings[l].price_micro_iota)
                  => (/\ lastTx'.status = "success"
                      /\ l \notin DOMAIN listings'
                      /\ l \in IdsOfType("Listing")'
                      /\ nfts'[listings[l].nft.id].owner = lastTx'.sender
                      /\ coinOwner' = [coinOwner EXCEPT
                            ![lastTx'.args.payment] = listings[l].seller])
              /\ l \in IdsOfType("Listing")
                  => (/\ lastTx'.status = "ObjectNotFound"
                      /\ UNCHANGED ledger) ]_vars

\* The only Listing ever created was sold for a coin; a second buyer,
\* offering an own coin of the same value, finds the Listing gone; the
\* Certificate is with the first buyer.
C7_Witness ==
    /\ ids_created = 2
    /\ lastTx.fn = "buy_item" /\ lastTx.status = "ObjectNotFound"
    /\ coinOwner[lastTx.args.payment] = lastTx.sender
    /\ \E c \in Coins :
          /\ coinOwner[c] # InitCoinOwner[c]
          /\ CoinValue[c] = CoinValue[lastTx.args.payment]
    /\ \E n \in DOMAIN nfts : nfts[n].owner # lastTx.sender

\* ======================================================================
\* C10
\* ======================================================================
\* C10: a retire of a Certificate by its owner succeeds: the Certificate is
\* destroyed, exactly one RetirementCertificate is created, owned by the
\* caller, naming the caller as retirer and the Certificate's id, amount
\* and verification id, and every other RetirementCertificate is
\* unchanged; a later list or retire that names a destroyed Certificate is
\* rejected as object-not-found and commits nothing.
C10_RetireIssuesCertificate ==
    [][ /\ (lastTx'.fn = "retire_nft"
               /\ lastTx'.args.nft \in DOMAIN nfts
               /\ nfts[lastTx'.args.nft].owner = lastTx'.sender)
            => LET n == lastTx'.args.nft
                   c == nfts[n].obj
                   r == object_new
               IN /\ lastTx'.status = "success"
                  /\ n \notin LiveNftIds'
                  /\ n \in IdsOfType("CarbonCreditNFT")'
                  /\ r \notin DOMAIN certs
                  /\ DOMAIN certs' = DOMAIN certs \cup {r}
                  /\ \A k \in DOMAIN certs : certs'[k] = certs[k]
                  /\ certs'[r].owner = lastTx'.sender
                  /\ certs'[r].obj.retirer_address = lastTx'.sender
                  /\ certs'[r].obj.original_nft_id = c.id
                  /\ certs'[r].obj.retired_amount_kg_co2e = c.amount_kg_co2e
                  /\ certs'[r].obj.original_verification_id = c.verification_id
        /\ (lastTx'.fn \in {"list_item", "retire_nft"}
               /\ lastTx'.args.nft \in IdsOfType("CarbonCreditNFT"))
            => (/\ lastTx'.status = "ObjectNotFound"
                /\ UNCHANGED ledger) ]_vars

\* The retirer of a Certificate tries to list it afterwards and is told it
\* does not exist; the RetirementCertificate is the retirer's.
C10_Witness ==
    /\ lastTx.fn = "list_item" /\ lastTx.status = "ObjectNotFound"
    /\ \E k \in DOMAIN certs :
          /\ certs[k].obj.original_nft_id = lastTx.args.nft
          /\ certs[k].owner = lastTx.sender
          /\ certs[k].obj.retirer_address = lastTx.sender


\* ======================================================================
\* C11
\* ======================================================================
\* The Certificates retired so far: the CarbonCreditNFT ids that were deleted.
RetiredNftIds == IdsOfType("CarbonCreditNFT")

\* The RetirementCertificates correspond one-to-one to the retired
\* Certificates through original_nft_id.
CertificatesMatchRetirements ==
    /\ \A c \in DOMAIN certs, d \in DOMAIN certs :
          certs[c].obj.original_nft_id = certs[d].obj.original_nft_id => c = d
    /\ { certs[c].obj.original_nft_id : c \in DOMAIN certs } = RetiredNftIds
    /\ Cardinality(DOMAIN certs) = Cardinality(RetiredNftIds)

\* C11: a retired Certificate is neither owned nor escrowed, it stays
\* retired in every later state, and in every state the
\* RetirementCertificates are in one-to-one correspondence with the
\* retired Certificates (matched by original_nft_id), so that there are as
\* many RetirementCertificates as retirements.
C11_RetirementIrreversible ==
    [][ \/ UNCHANGED <<nfts, listings, certs, deleted>>
        \/ /\ CertificatesMatchRetirements
           /\ CertificatesMatchRetirements'
           /\ RetiredNftIds \cap LiveNftIds = {}
           /\ \A n \in RetiredNftIds :
                 n \in RetiredNftIds' /\ n \notin LiveNftIds' ]_vars

\* Both Certificates have been retired, and an attempt to list one of them
\* again finds no such object.
C11_Witness ==
    /\ Cardinality(RetiredNftIds) = 2
    /\ Cardinality(DOMAIN certs) = 2
    /\ lastTx.fn = "list_item"
    /\ lastTx.args.nft \in RetiredNftIds
    /\ lastTx.status = "ObjectNotFound"

\* ======================================================================
\* C12
\* ======================================================================
\* C12, as stated: in every state every RetirementCertificate is with the
\* principal recorded as its retirer (or frozen, when it has no owner any
\* more): no operation moves it to another principal.
C12_AsStated ==
    \A c \in DOMAIN certs :
        certs[c].owner \in {certs[c].obj.retirer_address, "Immutable"}

\* ======================================================================
\* C13
\* ======================================================================
Frozen(c) == c \in DOMAIN certs /\ certs[c].owner = "Immutable"

\* C13: a successful freeze leaves the RetirementCertificate frozen, and a
\* freeze of a RetirementCertificate that is already frozen is rejected
\* (the host refuses the immutable object as an argument: AlreadyFrozen)
\* and changes nothing.
C13_SecondFreezeRejected ==
    [][ lastTx'.fn = "freeze_my_certificate" =>
          /\ lastTx'.status = "success" =>
                certs'[lastTx'.args.certificate].owner = "Immutable"
          /\ Frozen(lastTx'.args.certificate) =>
                /\ lastTx'.status = "Immutable"
                /\ UNCHANGED ledger ]_vars

\* The retirer froze the certificate and then tried to freeze it again.
C13_Witness ==
    /\ lastTx.fn = "freeze_my_certificate"
    /\ lastTx.status = "Immutable"
    /\ Frozen(lastTx.args.certificate)
    /\ lastTx.sender = certs[lastTx.args.certificate].obj.retirer_address

\* ======================================================================
\* C14
\* ======================================================================
\* C14: a freeze succeeds only for the owner of the RetirementCertificate;
\* a freeze by a non-owner fails and leaves everything, the unfrozen
\* certificate included, as it was; a certificate becomes frozen only by a
\* successful freeze of it; and a frozen certificate stays frozen, with
\* the same fields, in every later state.
C14_FreezeOneWayByOwner ==
    [][ /\ lastTx'.fn = "freeze_my_certificate" =>
            LET c == lastTx'.args.certificate
            IN /\ lastTx'.status = "success" =>
                     c \in DOMAIN certs /\ certs[c].owner = lastTx'.sender
               /\ (/\ c \in DOMAIN certs
                   /\ certs[c].owner \notin {lastTx'.sender, "Immutable"}) =>
                     /\ lastTx'.status = "NotOwner"
                     /\ UNCHANGED ledger
                     /\ certs'[c].owner # "Immutable"
        /\ \A c \in DOMAIN certs' :
              (~Frozen(c) /\ Frozen(c)') =>
                  /\ lastTx'.fn = "freeze_my_certificate"
                  /\ lastTx'.status = "success"
                  /\ lastTx'.args.certificate = c
        /\ \A c \in DOMAIN certs :
              Frozen(c) => c \in DOMAIN certs' /\ certs'[c] = certs[c] ]_vars

\* One certificate is frozen, and a freeze of another one by a user who
\* does not own it has just been refused.
C14_Witness ==
    /\ \E c \in DOMAIN certs : Frozen(c)
    /\ lastTx.fn = "freeze_my_certificate"
    /\ lastTx.status = "NotOwner"
    /\ ~Frozen(lastTx.args.certificate)
    /\ certs[lastTx.args.certificate].owner # lastTx.sender

\* ======================================================================
\* C15
\* ======================================================================
ListExecuted   == lastTx'.fn = "list_item" /\ lastTx'.status = "success"
CancelExecuted == lastTx'.fn = "cancel_listing" /\ lastTx'.status = "success"

\* C15: list deposits the seller's Certificate unchanged in the new
\* Listing, the Listing keeps it unchanged as long as it exists, and a
\* cancel by the seller succeeds, returns that same Certificate (id,
\* amount, activity code, verification id, issuance time) to the seller,
\* moves no coin and leaves the Listing out of active_listings and of
\* active_listing_ids.
C15_ListCancelRoundTrip ==
    [][ /\ ListExecuted =>
            /\ object_new \in DOMAIN listings'
            /\ listings'[object_new].nft = nfts[lastTx'.args.nft].obj
            /\ listings'[object_new].seller = lastTx'.sender
            /\ table_contains(active_listings', object_new)
        /\ \A l \in DOMAIN listings \cap DOMAIN listings' :
              listings'[l] = listings[l]
        /\ (/\ lastTx'.fn = "cancel_listing"
            /\ lastTx'.args.listing \in DOMAIN listings
            /\ lastTx'.sender = listings[lastTx'.args.listing].seller)
              => lastTx'.status = "success"
        /\ CancelExecuted =>
            LET l   == lastTx'.args.listing
                nft == listings[l].nft
            IN /\ nft.id \in DOMAIN nfts'
               /\ nfts'[nft.id] = [obj |-> nft, owner |-> lastTx'.sender]
               /\ coinOwner' = coinOwner
               /\ l \notin DOMAIN listings'
               /\ ~table_contains(active_listings', l)
               /\ vector_index_of(active_listing_ids', l)[1] = FALSE ]_vars

\* alice listed the Certificate minted to her and cancelled the Listing:
\* she owns it again, as it was minted.
C15_Witness ==
    /\ lastTx.fn = "cancel_listing"
    /\ lastTx.status = "success"
    /\ ids_created = 2
    /\ DOMAIN deleted = {2}
    /\ 1 \in DOMAIN nfts
    /\ nfts[1].owner = lastTx.sender
    /\ nfts[1].obj = [id |-> 1, amount_kg_co2e |-> 5, activity_type |-> 1,
                      verification_id |-> "evt-001",
                      issuance_timestamp_ms |-> 1000]
    /\ coinOwner = InitCoinOwner
    /\ ~table_contains(active_listings, 2)

AdminCaps == DOMAIN OwnedStore("AdminCap")
OneAdminCap ==
    /\ Cardinality(AdminCaps) = 1
    /\ \A k \in AdminCaps : OwnedStore("AdminCap")[k].owner \in Addresses

C18_RegistryMonotone ==
    [][ /\ \A v \in DOMAIN processed_ids :
              v \in DOMAIN processed_ids' /\ processed_ids'[v] = processed_ids[v]
        /\ \A v \in DOMAIN processed_ids' \ DOMAIN processed_ids :
              /\ lastTx'.fn = "mint_nft"
              /\ lastTx'.status = "success"
              /\ lastTx'.args.verification_id = v ]_vars

\* Both verification ids are still in the registry after both Certificates
\* were retired and a further mint of one of the ids was refused.
C18_Witness ==
    /\ DOMAIN processed_ids = {"evt-001", "evt-002"}
    /\ LiveNftIds = {}
    /\ Cardinality(DOMAIN certs) = 2
    /\ lastTx.fn = "mint_nft"
    /\ Aborted(lastTx, EVerificationIdAlreadyProcessed)

\* ======================================================================
\* C19
\* ======================================================================
EscrowedNftIds == { n.id : n \in EscrowedNfts }

\* C19: a retire_nft call succeeds only for an NFT the sender owns; on an
\* NFT held by a Listing, or owned by another principal, it is rejected
\* and leaves the NFT, the Listing, the index and everything else as they
\* were, and no RetirementCertificate is created.
C19_RetireNeedsOwnedNft ==
    [][ lastTx'.fn = "retire_nft" =>
          LET n == lastTx'.args.nft
          IN /\ lastTx'.status = "success" =>
                   n \in DOMAIN nfts /\ nfts[n].owner = lastTx'.sender
             /\ n \in EscrowedNftIds =>
                   /\ lastTx'.status = "ObjectNotFound"
                   /\ UNCHANGED ledger
                   /\ DOMAIN certs' = DOMAIN certs
             /\ (n \in DOMAIN nfts /\ nfts[n].owner # lastTx'.sender) =>
                   /\ lastTx'.status = "NotOwner"
                   /\ UNCHANGED ledger
                   /\ DOMAIN certs' = DOMAIN certs ]_vars

\* The seller tried to retire the Certificate while a Listing holds it.
C19_Witness ==
    /\ lastTx.fn = "retire_nft"
    /\ lastTx.status = "ObjectNotFound"
    /\ \E l \in DOMAIN listings :
          /\ listings[l].nft.id = lastTx.args.nft
          /\ listings[l].seller = lastTx.sender
          /\ table_contains(active_listings, l)
    /\ certs = EmptyMap

\* ======================================================================
\* C20
\* ======================================================================
\* The state of the Certificate with id n.
CertificateState(n) ==
    IF n \in DOMAIN nfts THEN <<"Owned", nfts[n].owner>>
    ELSE IF n \in EscrowedNftIds
         THEN <<"Escrowed", listings[CHOOSE l \in Holders(n) : TRUE].seller>>
    ELSE IF n \in RetiredNftIds THEN <<"Retired">>
    ELSE <<"Nonexistent">>

\* The step is a successful call of fn.
Executed(fn) == lastTx'.fn = fn /\ lastTx'.status = "success"

\* The five transitions of the Certificate state machine, from state a to
\* state b of Certificate n.
LifecycleTransition(n, a, b) ==
    \/ /\ Executed("mint_nft")
       /\ n = object_new
       /\ a = <<"Nonexistent">>
       /\ b = <<"Owned", lastTx'.args.recipient>>
    \/ /\ Executed("list_item")
       /\ n = lastTx'.args.nft
       /\ a = <<"Owned", lastTx'.sender>>
       /\ b = <<"Escrowed", lastTx'.sender>>
    \/ /\ Executed("cancel_listing")
       /\ lastTx'.args.listing \in Holders(n)
       /\ a = <<"Escrowed", lastTx'.sender>>
       /\ b = <<"Owned", lastTx'.sender>>
    \/ /\ Executed("buy_item")
       /\ lastTx'.args.listing \in Holders(n)
       /\ a[1] = "Escrowed"
       /\ b = <<"Owned", lastTx'.sender>>
    \/ /\ Executed("retire_nft")
       /\ n = lastTx'.args.nft
       /\ a = <<"Owned", lastTx'.sender>>
       /\ b = <<"Retired">>

\* The owner sends the Certificate to another principal.
OwnerTransfer(n, a, b) ==
    /\ Executed("public_transfer")
    /\ lastTx'.args.type = "CarbonCreditNFT"
    /\ n = lastTx'.args.object
    /\ a = <<"Owned", lastTx'.sender>>
    /\ b = <<"Owned", lastTx'.args.recipient>>

\* Every id an object may have.
ObjectIds == 1..(MaxObjects + 1)

\* The objects CertificateState reads.
nft_stores == <<nfts, listings, deleted>>

DeletedListingIds == IdsOfType("Listing")
InIndex(ids, l) == vector_index_of(ids, l)[1]

\* C21: a Listing ceases to exist only by one successful buy_item or
\* cancel_listing naming it, which deletes it and removes its entry from
\* active_listings and active_listing_ids; a deleted Listing stays deleted
\* and out of the index in every later state, and every buy_item or
\* cancel_listing naming it is rejected (object not found) and changes
\* nothing.
C21_ListingTerminatesOnce ==
    [][ /\ \/ UNCHANGED <<listings, active_listings, active_listing_ids,
                          deleted>>
           \/ /\ \A l \in DOMAIN listings \ DOMAIN listings' :
                    /\ \/ Executed("buy_item")
                       \/ Executed("cancel_listing")
                    /\ lastTx'.args.listing = l
                    /\ DOMAIN listings' = DOMAIN listings \ {l}
                    /\ l \in DeletedListingIds'
                    /\ table_contains(active_listings, l)
                    /\ ~table_contains(active_listings', l)
                    /\ InIndex(active_listing_ids, l)
                    /\ ~InIndex(active_listing_ids', l)
                    /\ Len(active_listing_ids') = Len(active_listing_ids) - 1
              /\ \A l \in DeletedListingIds :
                    /\ l \in DeletedListingIds'
                    /\ l \notin DOMAIN listings'
                    /\ ~table_contains(active_listings', l)
                    /\ ~InIndex(active_listing_ids', l)
        /\ (/\ lastTx'.fn \in {"buy_item", "cancel_listing"}
            /\ lastTx'.args.listing \in DeletedListingIds)
              => /\ lastTx'.status = "ObjectNotFound"
                 /\ UNCHANGED ledger ]_vars

\* The Listing was sold, and its seller then tried to cancel it.
C21_Witness ==
    /\ lastTx.fn = "cancel_listing"
    /\ lastTx.status = "ObjectNotFound"
    /\ lastTx.args.listing \in DeletedListingIds
    /\ coinOwner # InitCoinOwner
    /\ \E n \in DOMAIN nfts : nfts[n].owner # lastTx.sender
    /\ Cardinality(DeletedListingIds) = 1

\* ======================================================================
\* C22
\* ======================================================================
\* C22: a successful retire_nft emits exactly two events, RetireNFTEvent
\* first and CertificateMinted second, both carrying the retirer and the
\* amount and verification id of the retired NFT; a rejected retire_nft
\* emits none.
C22_RetireEvents ==
    [][ lastTx'.fn = "retire_nft" =>
          IF lastTx'.status = "success"
          THEN LET nft == nfts[lastTx'.args.nft].obj
                   evs == lastTx'.events
               IN /\ Len(evs) = 2
                  /\ evs[1].type = "RetireNFTEvent"
                  /\ evs[1].retirer = lastTx'.sender
                  /\ evs[1].nft_id = nft.id
                  /\ evs[1].amount_kg_co2e = nft.amount_kg_co2e
                  /\ evs[1].verification_id = nft.verification_id
                  /\ evs[2].type = "CertificateMinted"
                  /\ evs[2].retirer_address = lastTx'.sender
                  /\ evs[2].retired_amount_kg_co2e = nft.amount_kg_co2e
                  /\ evs[2].original_verification_id = nft.verification_id
                  /\ evs[2].certificate_id \in DOMAIN certs' \ DOMAIN certs
          ELSE lastTx'.events = <<>> ]_vars

\* bob retired the Certificate he had bought from alice: the two events
\* name bob and the Certificate minted for alice.
C22_Witness ==
    /\ lastTx.fn = "retire_nft"
    /\ lastTx.status = "success"
    /\ lastTx.sender = "bob"
    /\ Len(lastTx.events) = 2
    /\ lastTx.events[1].type = "RetireNFTEvent"
    /\ lastTx.events[1].verification_id = "evt-001"
    /\ lastTx.events[2].type = "CertificateMinted"
    /\ lastTx.events[2].retirer_address = "bob"
    /\ coinOwner # InitCoinOwner

\* ======================================================================
\* The frontend: the transactions its handlers build, and how the network
\* resolves a moveCall against the entry functions of the package.
\* ======================================================================
\* tx.object(id): an object argument, of the type the page fetched it as.
tx_object(type, id) == [kind |-> "object", type |-> type, id |-> id]
\* tx.pure.u64(v)
tx_pure_u64(v) == [kind |-> "pure", type |-> "u64", value |-> v]
\* tx.splitCoins(tx.object(coin), [tx.pure.u64(amount)]): the coin split off.
tx_splitCoins(coin, amount) ==
    [kind |-> "result", type |-> "Coin<IOTA>", id |-> coin, value |-> amount]
\* tx.moveCall({target, arguments})
tx_moveCall(target, arguments) == [target |-> target, arguments |-> arguments]

\* NEXT_PUBLIC_LISTING_REGISTRY_ID: the one shared ListingRegistry.
listingRegistryId == 0

\* The `public entry fun`s the frontend reaches for, with the types of their
\* parameters in order (the trailing TxContext is supplied by the network).
EntryPoints ==
    ("marketplace::list_item" :>
        <<"ListingRegistry", "CarbonCreditNFT", "u64">>) @@
    ("marketplace::buy_item" :>
        <<"ListingRegistry", "Listing", "Coin<IOTA>">>) @@
    ("marketplace::cancel_listing" :> <<"ListingRegistry", "Listing">>) @@
    ("carbon_nft_manager::retire_nft" :> <<"CarbonCreditNFT">>)

\* Statuses of a moveCall the network cannot link to an entry function.
LinkErrors == {"FunctionNotFound", "ArityMismatch", "TypeMismatch"}

\* The reason the moveCall does not link, or "ok".
resolve_call(tx) ==
    IF tx.target \notin DOMAIN EntryPoints THEN "FunctionNotFound"
    ELSE IF Len(tx.arguments) # Len(EntryPoints[tx.target])
    THEN "ArityMismatch"
    ELSE IF \E i \in 1..Len(tx.arguments) :
                tx.arguments[i].type # EntryPoints[tx.target][i]
    THEN "TypeMismatch"
    ELSE "ok"

\* The wallet signs the transaction and the network executes it.  A call
\* that links runs the entry function on its arguments; a payment split off
\* in the same transaction is outside the fixed coin values of this model.
signAndExecuteTransaction(sender, tx) ==
    LET a == tx.arguments
    IN
    IF resolve_call(tx) # "ok"
    THEN Reject(tx.target, sender, [arguments |-> a], resolve_call(tx), 0)
    ELSE CASE tx.target = "marketplace::list_item" ->
                 list_item(sender, a[2].id, a[3].value)
           [] tx.target = "marketplace::buy_item" ->
                 a[3].kind = "object" /\ buy_item(sender, a[2].id, a[3].id)
           [] tx.target = "marketplace::cancel_listing" ->
                 cancel_listing(sender, a[2].id)
           [] tx.target = "carbon_nft_manager::retire_nft" ->
                 \E now \in RetireEpochs : retire_nft(sender, now, a[1].id)

\* ----------------------------------------------------- ListItemDialog --
\* The text of the price input: the digits before and after the point.
Decimal(integerPart, fractionalPart) ==
    [integerPart |-> integerPart, fractionalPart |-> fractionalPart]
\* "0", "1", "0.5", "0.000001", "1.0000001"
PriceInputs ==
    { Decimal(<<0>>, <<>>), Decimal(<<1>>, <<>>), Decimal(<<0>>, <<5>>),
      Decimal(<<0>>, <<0, 0, 0, 0, 0, 1>>),
      Decimal(<<1>>, <<0, 0, 0, 0, 0, 0, 1>>) }

RECURSIVE BigInt(_)
\* BigInt(digits): the number a string of decimal digits denotes.
BigInt(digits) ==
    IF Len(digits) = 0 THEN 0
    ELSE 10 * BigInt(SubSeq(digits, 1, Len(digits) - 1)) + digits[Len(digits)]

\* fractionalPart.padEnd(decimals, '0'): pads, and never cuts.
padEnd(digits, decimals) ==
    digits \o [i \in 1..(IF Len(digits) < decimals
                         THEN decimals - Len(digits) ELSE 0) |-> 0]

\* BigInt(integerPart + paddedFractional)
toBaseUnits(amount, decimals) ==
    BigInt(amount.integerPart \o padEnd(amount.fractionalPart, decimals))

\* parseFloat(price) <= 0
parseFloat_not_positive(amount) ==
    BigInt(amount.integerPart) = 0 /\ BigInt(amount.fractionalPart) = 0

\* The moveCall of handleList.
handleList_tx(nft_id, priceBaseUnits) ==
    tx_moveCall("marketplace::listItem",
                <<tx_object("CarbonCreditNFT", nft_id),
                  tx_pure_u64(priceBaseUnits)>>)

\* handleList, for an NFT shown on My Assets: the early returns are guards.
handleList(account, nft_id, price) ==
    /\ nft_id \in DOMAIN nfts /\ nfts[nft_id].owner = account
    /\ ~parseFloat_not_positive(price)
    /\ toBaseUnits(price, 6) > 0
    /\ signAndExecuteTransaction(account,
                                 handleList_tx(nft_id, toBaseUnits(price, 6)))

\* ------------------------------------------------- marketplace actions --
\* The balances of the wallet's coins, largest first: the coin handleBuy
\* settles on is a largest one, if that covers the amount.
paymentCoinInput(account, requiredAmount) ==
    { c \in OwnCoins(account) :
        /\ \A d \in OwnCoins(account) : CoinValue[d] <= CoinValue[c]
        /\ CoinValue[c] >= requiredAmount }

\* The same choice over the coins fetchUserCoins has returned: the first of
\* sortedCoins whose balance covers the amount.
firstSuitableCoin(currentCoins, requiredAmount) ==
    { c \in currentCoins :
        /\ \A d \in currentCoins : CoinValue[d] <= CoinValue[c]
        /\ CoinValue[c] >= requiredAmount }

\* paymentCoinArg that hands over the coin found, whatever its balance.
paymentCoinArg_Whole(coin, requiredAmount) ==
    tx_object("Coin<IOTA>", coin)

\* The coin itself on an exact match, else the result of a split.
paymentCoinArg(coin, requiredAmount) ==
    IF CoinValue[coin] = requiredAmount
    THEN tx_object("Coin<IOTA>", coin)
    ELSE tx_splitCoins(coin, requiredAmount)

\* The moveCall of handleBuy.
handleBuy_tx(listing_id, payment) ==
    tx_moveCall("marketplace::buy_item",
                <<tx_object("Listing", listing_id), payment>>)

\* handleBuy, for a listing shown on the marketplace.
handleBuy(account, listing_id) ==
    /\ listing_id \in DOMAIN listings
    /\ account # listings[listing_id].seller
    /\ \E c \in paymentCoinInput(account, listings[listing_id].price_micro_iota) :
          signAndExecuteTransaction(account,
              handleBuy_tx(listing_id,
                  paymentCoinArg(c, listings[listing_id].price_micro_iota)))

\* The moveCall of handleCancelListing.
handleCancelListing_tx(listing_id) ==
    tx_moveCall("marketplace::cancel_listing",
                <<tx_object("ListingRegistry", listingRegistryId),
                  tx_object("Listing", listing_id)>>)

\* handleCancelListing, for a listing shown on the marketplace.
handleCancelListing(account, listing_id) ==
    /\ listing_id \in DOMAIN listings
    /\ account = listings[listing_id].seller
    /\ signAndExecuteTransaction(account, handleCancelListing_tx(listing_id))

\* The moveCall of handleRetire.
handleRetire_tx(nftId) ==
    tx_moveCall("carbon_nft_manager::retire_nft",
                <<tx_object("CarbonCreditNFT", nftId)>>)

\* handleRetire, for an NFT shown on My Assets.
handleRetire(account, nftId) ==
    /\ nftId \in DOMAIN nfts /\ nfts[nftId].owner = account
    /\ signAndExecuteTransaction(account, handleRetire_tx(nftId))

\* The pages of the frontend, used by the connected wallet.
UserInterface ==
    \/ \E s \in Users, n \in NftIds, p \in PriceInputs : handleList(s, n, p)
    \/ \E s \in Users, l \in ListingIds : handleBuy(s, l)
    \/ \E s \in Users, l \in ListingIds : handleCancelListing(s, l)
    \/ \E s \in Users, n \in NftIds : handleRetire(s, n)

\* The package called directly (`iota-client call`) and through the pages,
\* next to the wallets' own transfers.
NextUI == EntryFunctions \/ TransferObjects \/ UserInterface

SpecUI == Init /\ [][NextUI]_vars

\* ---------------------------------------------------------------- C23 --
\* C23 (as stated): every transaction the frontend builds for list, buy,
\* cancel and retire names an entry function of the package and passes the
\* arguments it takes, in order: no transaction is refused for naming a
\* function that does not exist or for its argument list.
C23_AsStated == lastTx.status \notin LinkErrors

\* ---------------------------------------------------------------- C24 --
\* A transaction built by handleBuy was handed to signAndExecuteTransaction
\* (it names buy_item by its full target, as only the frontend does).
BuySubmitted == lastTx.fn = "marketplace::buy_item"

\* C24 (as stated): when the connected wallet holds only one coin object,
\* Buy Now stops with an error and submits no buy transaction.
C24_AsStated ==
    ~(BuySubmitted /\ Cardinality(OwnCoins(lastTx.sender)) = 1)

\* ---------------------------------------------------------------- C25 --
\* The removal of an id from active_listing_ids on its own, applied to every
\* vector of distinct ids up to a length.
MaxVecLen == 3           \* longest active_listing_ids vector drawn

\* The vectors the registry can hold: ids of Listings, each at most once.
ListingIdVectors ==
    UNION { { v \in [1..n -> ObjectIds] :
                \A i, j \in 1..n : i # j => v[i] # v[j] } : n \in 0..MaxVecLen }

InitVec ==
    /\ active_listing_ids \in ListingIdVectors
    /\ adminCapOwner = Deployer
    /\ processed_ids = EmptyMap
    /\ nfts = EmptyMap
    /\ listings = EmptyMap
    /\ active_listings = EmptyMap
    /\ certs = EmptyMap
    /\ coinOwner = InitCoinOwner
    /\ deleted = EmptyMap
    /\ ids_created = 0
    /\ lastTx = Tx("init", Deployer, EmptyMap, "success", 0, <<>>)
    /\ ui = NoPage

\* The last statements of buy_item and of cancel_listing, for the id of the
\* Listing just destroyed.
RemoveFromVector(listing_obj_id) ==
    /\ active_listing_ids' = remove_listing_id(active_listing_ids, listing_obj_id)
    /\ lastTx' = Tx("remove_listing_id", Deployer,
                    [ids |-> active_listing_ids,
                     listing_obj_id |-> listing_obj_id],
                    "success", 0, <<>>)
    /\ UNCHANGED ui
    /\ UNCHANGED <<adminCapOwner, processed_ids, nfts, listings,
                   active_listings, certs, coinOwner, deleted, ids_created>>

NextVec == \E l \in ObjectIds : RemoveFromVector(l)

SpecVec == InitVec /\ [][NextVec]_vars

\* How many slots of v hold e.
Occurrences(v, e) == Cardinality({ i \in 1..Len(v) : v[i] = e })

\* C25: removing an id that is in the vector, by swap with the last element
\* and truncation, leaves a vector one shorter in which that id occurs no
\* more and every other id occurs exactly as often as before (once), at
\* whatever position the id was; only the order may differ.
C25_SwapRemoveExact ==
    lastTx.fn = "remove_listing_id" =>
        LET before == lastTx.args.ids
            id     == lastTx.args.listing_obj_id
            after  == active_listing_ids
        IN  IF Occurrences(before, id) = 0
            THEN after = before
            ELSE /\ Len(after) = Len(before) - 1
                 /\ Occurrences(after, id) = 0
                 /\ \A e \in ObjectIds \ {id} :
                       Occurrences(after, e) = Occurrences(before, e)

\* An id removed from the middle of three: the last id takes its slot.
C25_Witness ==
    /\ lastTx.fn = "remove_listing_id"
    /\ Len(lastTx.args.ids) = 3
    /\ lastTx.args.ids[2] = lastTx.args.listing_obj_id
    /\ active_listing_ids = <<lastTx.args.ids[1], lastTx.args.ids[3]>>

\* The other positions the id can be at: first, last, and alone.
C25_RemovedFirst ==
    /\ lastTx.fn = "remove_listing_id"
    /\ Len(lastTx.args.ids) = 3
    /\ lastTx.args.ids[1] = lastTx.args.listing_obj_id
    /\ active_listing_ids = <<lastTx.args.ids[3], lastTx.args.ids[2]>>
C25_RemovedLast ==
    /\ lastTx.fn = "remove_listing_id"
    /\ Len(lastTx.args.ids) = 3
    /\ lastTx.args.ids[3] = lastTx.args.listing_obj_id
    /\ active_listing_ids = <<lastTx.args.ids[1], lastTx.args.ids[2]>>
C25_RemovedOnly ==
    /\ lastTx.fn = "remove_listing_id"
    /\ lastTx.args.ids = <<lastTx.args.listing_obj_id>>
    /\ active_listing_ids = <<>>

\* ---------------------------------------------------------------- C26 --
\* C26: a successful list_item by p of the NFT c, which p owned just before,
\* creates a Listing with seller p, nft_id c and the price given, wrapping
\* that NFT, and records listing id -> p in active_listings; in every state
\* the seller in active_listings is the seller in the Listing; and as long
\* as a Listing exists its seller, its price and its table entry stay as
\* they were.
C26_ListingRecordsSeller ==
    /\ [](\A l \in DOMAIN listings :
             /\ table_contains(active_listings, l)
             /\ active_listings[l] = listings[l].seller)
    /\ [][ \/ UNCHANGED <<listings, active_listings>>
           \/ /\ Executed("list_item") =>
                    LET p == lastTx'.sender
                        c == lastTx'.args.nft
                        l == ids_created'
                    IN  /\ c \in DOMAIN nfts /\ nfts[c].owner = p
                        /\ DOMAIN listings' = DOMAIN listings \cup {l}
                        /\ l \notin DOMAIN listings
                        /\ listings'[l].seller = p
                        /\ listings'[l].nft_id = c
                        /\ listings'[l].nft = nfts[c].obj
                        /\ listings'[l].price_micro_iota =
                               lastTx'.args.price_micro_iota
                        /\ active_listings'[l] = p
              /\ \A l \in DOMAIN listings \cap DOMAIN listings' :
                    /\ listings'[l] = listings[l]
                    /\ active_listings'[l] = active_listings[l] ]_vars

\* bob came to own the NFT minted to alice and listed it himself: the Listing
\* names bob, the owner just before the list, at the highest price.
C26_Witness ==
    /\ lastTx.fn = "list_item" /\ lastTx.status = "success"
    /\ lastTx.sender = "bob"
    /\ \E l \in DOMAIN listings :
          /\ listings[l].seller = "bob"
          /\ active_listings[l] = "bob"
          /\ listings[l].nft.verification_id = "evt-001"
          /\ listings[l].price_micro_iota = MaxPrice

BuyAtPrice(l) ==
    /\ lastTx'.fn = "buy_item" /\ lastTx'.args.listing = l
    /\ coinOwner[lastTx'.args.payment] = lastTx'.sender
    /\ l \in DOMAIN listings =>
          CoinValue[lastTx'.args.payment] = listings[l].price_micro_iota
CancelBySeller(l) ==
    /\ lastTx'.fn = "cancel_listing" /\ lastTx'.args.listing = l
    /\ l \in DOMAIN listings => lastTx'.sender = listings[l].seller

\* C28: transactions on a shared Listing are ordered by the network, so a
\* buy at the price and the seller's cancel meet it one after the other.
\* Whichever comes while the Listing exists succeeds and destroys it: the
\* buy gives the NFT to the buyer and raises the seller's balance by exactly
\* the price, the cancel gives the NFT back to the seller and moves no coin.
\* Whichever comes once the Listing is destroyed is refused as object not
\* found and changes nothing, so what the winner did stands.
C28_BuyCancelRace ==
    [][ lastTx'.fn \in {"buy_item", "cancel_listing"} =>
        LET l == lastTx'.args.listing IN
          /\ (BuyAtPrice(l) /\ l \in DOMAIN listings) =>
                LET L == listings[l]
                IN  /\ lastTx'.status = "success"
                    /\ l \in DeletedListingIds'
                    /\ nfts'[L.nft_id].owner = lastTx'.sender
                    /\ lastTx'.sender # L.seller =>
                          /\ Balance(coinOwner', L.seller) =
                                Balance(coinOwner, L.seller) + L.price_micro_iota
                          /\ Balance(coinOwner', lastTx'.sender) =
                                Balance(coinOwner, lastTx'.sender) - L.price_micro_iota
          /\ (CancelBySeller(l) /\ l \in DOMAIN listings) =>
                LET L == listings[l]
                IN  /\ lastTx'.status = "success"
                    /\ l \in DeletedListingIds'
                    /\ nfts'[L.nft_id].owner = L.seller
                    /\ coinOwner' = coinOwner
          /\ ((BuyAtPrice(l) \/ CancelBySeller(l)) /\ l \in DeletedListingIds) =>
                /\ lastTx'.status = "ObjectNotFound"
                /\ UNCHANGED ledger ]_vars

\* The buy won: bob holds the NFT and alice the coin he paid, and alice's
\* cancel of the same Listing found it gone.
C28_Witness ==
    /\ lastTx.fn = "cancel_listing" /\ lastTx.sender = "alice"
    /\ lastTx.status = "ObjectNotFound"
    /\ lastTx.args.listing \in DeletedListingIds
    /\ Cardinality(DeletedListingIds) = 1
    /\ coinOwner = [InitCoinOwner EXCEPT !["coin1"] = "alice"]
    /\ \E n \in DOMAIN nfts : nfts[n].owner = "bob"

\* The cancel won: alice holds the NFT again, no coin moved, and bob's buy
\* of the same Listing found it gone.
C28_CancelWon ==
    /\ lastTx.fn = "buy_item" /\ lastTx.sender = "bob"
    /\ lastTx.status = "ObjectNotFound"
    /\ lastTx.args.listing \in DeletedListingIds
    /\ Cardinality(DeletedListingIds) = 1
    /\ coinOwner = InitCoinOwner
    /\ DOMAIN nfts # {} /\ \A n \in DOMAIN nfts : nfts[n].owner = "alice"

\* ---------------------------------------------------------------- C29 --
\* C29: an escrowed NFT is never stuck.  In every reachable state, for every
\* Listing that exists, the cancel_listing of its recorded seller can be
\* taken and succeeds: the Listing is destroyed and the NFT is the seller's
\* again.  Failed attempts change nothing, so this holds after any of them.
C29_SellerCanAlwaysCancel ==
    \A l \in DOMAIN listings :
        ENABLED (/\ cancel_listing(listings[l].seller, l)
                 /\ lastTx'.status = "success"
                 /\ l \notin DOMAIN listings'
                 /\ ~table_contains(active_listings', l)
                 /\ listings[l].nft_id \in DOMAIN nfts'
                 /\ nfts'[listings[l].nft_id] =
                        [obj |-> listings[l].nft, owner |-> listings[l].seller])

\* A buy with the wrong payment has just failed on a Listing, which is
\* still there and still in the index: its seller can cancel it.
C29_Witness ==
    /\ lastTx.fn = "buy_item" /\ Aborted(lastTx, EIncorrectPaymentAmount)
    /\ lastTx.args.listing \in DOMAIN listings
    /\ table_contains(active_listings, lastTx.args.listing)

\* A cancel by someone else has just failed on a Listing that still exists.
C29_AfterFailedCancel ==
    /\ lastTx.fn = "cancel_listing" /\ Aborted(lastTx, ENotSeller)
    /\ lastTx.args.listing \in DOMAIN listings
    /\ lastTx.sender # listings[lastTx.args.listing].seller

\* ---------------------------------------------------------------- C30 --
\* The functions whose events C30 is about.
MarketFunctions == {"mint_nft", "list_item", "buy_item", "cancel_listing"}

\* C30: the events of a transaction are those of its committed effects.  A
\* successful mint_nft, list_item, buy_item or cancel_listing emits exactly
\* one event (MintNFTEvent, ListingCreated, ItemSold, ListingCancelled)
\* whose fields are the values of the change it made: the id of the object
\* created or destroyed, recipient or seller or buyer, amount or price,
\* verification id.  A transaction that is refused emits none.
C30_EventsMatchEffects ==
    [][ lastTx'.fn \in MarketFunctions =>
          IF lastTx'.status # "success"
          THEN lastTx'.events = <<>> /\ UNCHANGED ledger
          ELSE /\ Len(lastTx'.events) = 1
               /\ LET ev == lastTx'.events[1]
                  IN CASE lastTx'.fn = "mint_nft" ->
                            /\ ev.type = "MintNFTEvent"
                            /\ DOMAIN nfts' \ DOMAIN nfts = {ev.nft_id}
                            /\ ev.recipient = nfts'[ev.nft_id].owner
                            /\ ev.recipient = lastTx'.args.recipient
                            /\ ev.amount_kg_co2e =
                                   nfts'[ev.nft_id].obj.amount_kg_co2e
                            /\ ev.verification_id =
                                   nfts'[ev.nft_id].obj.verification_id
                            /\ table_contains(processed_ids', ev.verification_id)
                       [] lastTx'.fn = "list_item" ->
                            /\ ev.type = "ListingCreated"
                            /\ DOMAIN listings' \ DOMAIN listings = {ev.listing_id}
                            /\ ev.nft_id = lastTx'.args.nft
                            /\ ev.nft_id = listings'[ev.listing_id].nft.id
                            /\ ev.seller = listings'[ev.listing_id].seller
                            /\ ev.seller = lastTx'.sender
                            /\ ev.price_micro_iota =
                                   listings'[ev.listing_id].price_micro_iota
                       [] lastTx'.fn = "buy_item" ->
                            /\ ev.type = "ItemSold"
                            /\ DOMAIN listings \ DOMAIN listings' = {ev.listing_id}
                            /\ ev.listing_id = lastTx'.args.listing
                            /\ ev.nft_id = listings[ev.listing_id].nft.id
                            /\ ev.seller = listings[ev.listing_id].seller
                            /\ ev.buyer = lastTx'.sender
                            /\ nfts'[ev.nft_id].owner = ev.buyer
                            /\ ev.price_micro_iota =
                                   listings[ev.listing_id].price_micro_iota
                            /\ ev.price_micro_iota =
                                   CoinValue[lastTx'.args.payment]
                            /\ coinOwner'[lastTx'.args.payment] = ev.seller
                       [] lastTx'.fn = "cancel_listing" ->
                            /\ ev.type = "ListingCancelled"
                            /\ DOMAIN listings \ DOMAIN listings' = {ev.listing_id}
                            /\ ev.listing_id = lastTx'.args.listing
                            /\ ev.nft_id = listings[ev.listing_id].nft.id
                            /\ ev.seller = listings[ev.listing_id].seller
                            /\ nfts'[ev.nft_id].owner = ev.seller ]_vars

\* bob bought alice's Listing at the highest price: one ItemSold naming
\* both, the NFT now bob's and the price.
C30_Witness ==
    /\ lastTx.fn = "buy_item" /\ lastTx.status = "success"
    /\ Len(lastTx.events) = 1
    /\ lastTx.events[1].type = "ItemSold"
    /\ lastTx.events[1].seller = "alice" /\ lastTx.events[1].buyer = "bob"
    /\ lastTx.events[1].price_micro_iota = MaxPrice
    /\ lastTx.events[1].listing_id \in DeletedListingIds
    /\ nfts[lastTx.events[1].nft_id].owner = "bob"

\* A refused mint (a verification id used before) carries no event.
C30_RejectedSilent ==
    /\ lastTx.fn = "mint_nft"
    /\ Aborted(lastTx, EVerificationIdAlreadyProcessed)
    /\ lastTx.events = <<>>

\* ---------------------------------------------------------------- C31 --
\* The CarbonCreditNFT objects that exist, owned or wrapped in a Listing.
LiveNfts == { nfts[i].obj : i \in DOMAIN nfts } \cup EscrowedNfts

\* The NFT carries the values of an accepted mint request for its
\* verification id, and the timestamp of that mint.
AsMinted(n) ==
    \E m \in MintRequests :
        /\ m.verification_id = n.verification_id
        /\ m.amount_kg_co2e = n.amount_kg_co2e
        /\ m.amount_kg_co2e > 0
        /\ m.activity_type = n.activity_type
        /\ EpochOfEvent(m.verification_id) = n.issuance_timestamp_ms

\* C31: the fields of a CarbonCreditNFT are those given at its mint for as
\* long as it exists: every step leaves each NFT as it was, wherever it
\* moves (list_item, buy_item, cancel_listing, a transfer), or is the
\* retire_nft that destroys it and writes its amount and verification id
\* into the new RetirementCertificate; so every certificate carries the
\* amount and the verification id of a mint.
C31_FieldsNeverChange ==
    /\ [](/\ \A n \in LiveNfts : AsMinted(n)
          /\ \A c \in DOMAIN certs :
                \E m \in MintRequests :
                    /\ m.verification_id = certs[c].obj.original_verification_id
                    /\ m.amount_kg_co2e = certs[c].obj.retired_amount_kg_co2e
                    /\ m.amount_kg_co2e > 0)
    /\ [][ \/ UNCHANGED <<nfts, listings, certs>>
           \/ /\ \A n \in LiveNfts :
                    \/ n \in LiveNfts'
                    \/ /\ Executed("retire_nft") /\ lastTx'.args.nft = n.id
                       /\ \E c \in DOMAIN certs' \ DOMAIN certs :
                             /\ certs'[c].obj.original_nft_id = n.id
                             /\ certs'[c].obj.retired_amount_kg_co2e =
                                    n.amount_kg_co2e
                             /\ certs'[c].obj.original_verification_id =
                                    n.verification_id
              /\ \A n \in LiveNfts' \ LiveNfts :
                    /\ Executed("mint_nft")
                    /\ n.amount_kg_co2e = lastTx'.args.amount_kg_co2e
                    /\ n.activity_type = lastTx'.args.activity_type
                    /\ n.verification_id = lastTx'.args.verification_id
              /\ \A c \in DOMAIN certs \cap DOMAIN certs' :
                    certs'[c].obj = certs[c].obj ]_vars

\* The NFT minted to alice for evt-001 went through a Listing to bob, who
\* paid for it and retired it: his certificate shows the minted 5 and
\* evt-001.
C31_Witness ==
    /\ lastTx.fn = "retire_nft" /\ lastTx.status = "success"
    /\ lastTx.sender = "bob"
    /\ DeletedListingIds # {}
    /\ coinOwner # InitCoinOwner
    /\ \E c \in DOMAIN certs :
          /\ certs[c].obj.retirer_address = "bob"
          /\ certs[c].obj.original_verification_id = "evt-001"
          /\ certs[c].obj.retired_amount_kg_co2e = 5

\* ---------------------------------------------------------------- C32 --
\* The sum of the balances of all addresses.
TotalBalance(owners) == SumValues({ c \in Coins : owners[c] \in Addresses })

\* C32: payment is conserved.  Every coin is owned by an address, never by
\* a Listing or the ListingRegistry, so the balances of the addresses always
\* add up to the value of all coins.  A step that is not a successful
\* buy_item leaves every coin where it was; a successful buy_item moves the
\* payment coin, whose value is the Listing's price, to the seller: the
\* seller's balance rises and the buyer's falls by exactly the price, and
\* no other balance changes.
C32_PaymentConserved ==
    /\ [](/\ \A c \in Coins : coinOwner[c] \in Addresses
          /\ TotalBalance(coinOwner) = SumValues(Coins))
    /\ [][ IF Executed("buy_item")
           THEN LET L      == listings[lastTx'.args.listing]
                    price  == L.price_micro_iota
                    buyer  == lastTx'.sender
                IN  /\ CoinValue[lastTx'.args.payment] = price
                    /\ coinOwner' = [coinOwner EXCEPT
                                        ![lastTx'.args.payment] = L.seller]
                    /\ \A a \in Addresses :
                          Balance(coinOwner', a) =
                              Balance(coinOwner, a)
                              + (IF a = L.seller THEN price ELSE 0)
                              - (IF a = buyer THEN price ELSE 0)
           ELSE coinOwner' = coinOwner ]_vars

\* bob paid alice the highest price for her Listing: her balance is up by
\* it, his is down by it, and the total is what it was.
C32_Witness ==
    /\ lastTx.fn = "buy_item" /\ lastTx.status = "success"
    /\ lastTx.sender = "bob"
    /\ lastTx.events[1].seller = "alice"
    /\ lastTx.events[1].price_micro_iota = MaxPrice
    /\ Balance(coinOwner, "alice") = Balance(InitCoinOwner, "alice") + MaxPrice
    /\ Balance(coinOwner, "bob") = Balance(InitCoinOwner, "bob") - MaxPrice
    /\ TotalBalance(coinOwner) = TotalBalance(InitCoinOwner)


\* ------------------------------------------- marketplace page: buy flow --
\* The Marketplace component of the Actions page, one step per stretch of
\* code that runs without an await or a callback in between.  The listing
\* handed to handleBuy and the coins fetchUserCoins returns are answers of
\* the network's queries: inputs of the page.  The page prepares and hands
\* over a transaction; it does not write the ledger itself.

MaxShownListings == 2     \* listings shown on the page: ids 1..MaxShownListings
MaxShownPrice    == 3     \* their prices range over 0..MaxShownPrice

\* useState<string | null>(null): no listing is being bought.
null == 0

\* MarketplaceListingData, as fetchListings has put it on the page.
ShownListings ==
    [id : 1..MaxShownListings, seller : Users,
     price_micro_iota : 0..MaxShownPrice]

\* result.digest: the digest of the transaction the wallet has sent.
txDigest == 1

\* The flows that end in a confirmation poller, and the pages they are on.
FlowsOn(page) == IF page = "marketplace" THEN {"buy", "cancel"} ELSE {"retire"}

\* The in-progress marker, the digest and the waiting flag of a flow.
Marker(k) == CASE k = "buy"    -> "buyingListingId"
               [] k = "cancel" -> "cancellingListingId"
               [] k = "retire" -> "retiringNftId"
Digest(k) == CASE k = "buy"    -> "buyTxDigest"
               [] k = "cancel" -> "cancelTxDigest"
               [] k = "retire" -> "retirementTxDigest"
Waiting(k) == CASE k = "buy"    -> "isWaitingForBuyConfirm"
                [] k = "cancel" -> "isWaitingForCancelConfirm"
                [] k = "retire" -> "isWaitingForRetireConfirm"

\* The page after mount, with the wallet of `account` connected.  `pc` is
\* the position of the running handleBuy, `listing` its argument and `tx`
\* the transaction last handed to signAndExecuteTransaction, if any.
\* Outside React: `timers` are the flows whose poller has a live interval,
\* `ticks` counts the callbacks of each since its effect ran, `requests`
\* are the flows with a getTransactionBlock in flight.
MarketplacePage(account) ==
    [page                      |-> "marketplace",
     account                   |-> account,
     buyingListingId           |-> null,
     buyTxDigest               |-> null,
     isWaitingForBuyConfirm    |-> FALSE,
     cancellingListingId       |-> null,
     cancelTxDigest            |-> null,
     isWaitingForCancelConfirm |-> FALSE,
     isTxPending               |-> FALSE,
     userCoins                 |-> {},
     pc                        |-> "idle",
     listing                   |-> <<>>,
     tx                        |-> <<>>,
     timers                    |-> {},
     ticks                     |-> [k \in FlowsOn("marketplace") |-> 0],
     requests                  |-> {}]

InitBuy ==
    /\ Published
    /\ \E account \in Users : ui = MarketplacePage(account)

\* What the effect of a poller depends on, next to client and fetchListings.
pollerDeps(status, k) ==
    <<status[Digest(k)], status[Waiting(k)]>> \o
        (IF k = "retire" THEN <<status[Marker(k)]>> ELSE <<>>)

\* The poller effects around a commit of the state `next`: where a
\* dependency has changed the cleanup clears the interval, and the effect
\* starts a new one, with a new startTime, if there is a digest to wait for.
pollerEffects(next) ==
    LET changed == { k \in FlowsOn(next.page) :
                        pollerDeps(next, k) # pollerDeps(ui, k) }
        polling == { k \in FlowsOn(next.page) :
                        next[Digest(k)] # null /\ next[Waiting(k)] }
    IN [next EXCEPT
          !.timers = (next.timers \ changed) \cup (changed \cap polling),
          !.ticks  = [k \in FlowsOn(next.page) |->
                         IF k \in changed THEN 0 ELSE next.ticks[k]]]

\* isProcessing of renderListingCard: it disables both buttons.
isProcessing ==
    \/ ui.buyingListingId # null \/ ui.cancellingListingId # null
    \/ ui.isTxPending
    \/ ui.isWaitingForBuyConfirm \/ ui.isWaitingForCancelConfirm

\* handleBuy up to `await fetchUserCoins()`: the guards, then the marker.
handleBuy_begin(listing) ==
    /\ ui.page = "marketplace"
    /\ ~isProcessing
    /\ ui.buyingListingId = null /\ ~ui.isTxPending
    /\ ui.account # listing.seller
    /\ ui' = pollerEffects([ui EXCEPT !.buyingListingId = listing.id,
                                      !.buyTxDigest = null,
                                      !.isWaitingForBuyConfirm = FALSE,
                                      !.pc = "fetchUserCoins",
                                      !.listing = <<listing>>,
                                      !.tx = <<>>])
    /\ UNCHANGED <<ledger, lastTx>>

\* setBuyingListingId(null) on the ways out of handleBuy without a
\* transaction.
handleBuy_giveUp(currentCoins) ==
    [ui EXCEPT !.userCoins = currentCoins,
               !.buyingListingId = null,
               !.pc = "returned"]

\* handleBuy from the answer of fetchUserCoins (an empty list when the query
\* failed) to its return: no coin, no coin that covers the price, or the
\* transaction built and handed to the wallet.
handleBuy_resume(currentCoins) ==
    /\ ui.page = "marketplace"
    /\ ui.pc = "fetchUserCoins"
    /\ LET listing        == ui.listing[1]
           requiredAmount == listing.price_micro_iota
       IN
       IF currentCoins = {} \/ firstSuitableCoin(currentCoins, requiredAmount) = {}
       THEN ui' = pollerEffects(handleBuy_giveUp(currentCoins))
       ELSE \E c \in firstSuitableCoin(currentCoins, requiredAmount) :
               ui' = pollerEffects([ui EXCEPT
                        !.userCoins = currentCoins,
                        !.isTxPending = TRUE,
                        !.pc = "signAndExecuteTransaction",
                        !.tx = <<handleBuy_tx(listing.id,
                                     paymentCoinArg(c, requiredAmount))>>])
    /\ UNCHANGED <<ledger, lastTx>>

\* The callbacks the mutation can end with: onError when the wallet cannot
\* build the call or the user declines, onSuccess with the digest of a call
\* that links.
walletOutcomes(tx) ==
    {"onError"} \cup (IF resolve_call(tx) = "ok" THEN {"onSuccess"} ELSE {})

\* The flow a transaction handed to the wallet belongs to.
flowOf(tx) ==
    CASE tx.target = "marketplace::buy_item"          -> "buy"
      [] tx.target = "marketplace::cancel_listing"    -> "cancel"
      [] tx.target = "carbon_nft_manager::retire_nft" -> "retire"

\* onSuccess / onError of the signAndExecuteTransaction of flow k.
transaction_settled(k) ==
    /\ ui.isTxPending /\ flowOf(ui.tx[1]) = k
    /\ \E outcome \in walletOutcomes(ui.tx[1]) :
          LET settled == IF k = "buy"
                         THEN [ui EXCEPT !.isTxPending = FALSE,
                                         !.pc = "returned"]
                         ELSE [ui EXCEPT !.isTxPending = FALSE]
          IN ui' = pollerEffects(
                     IF outcome = "onSuccess"
                     THEN [settled EXCEPT ![Digest(k)] = txDigest,
                                          ![Waiting(k)] = TRUE]
                     ELSE [settled EXCEPT ![Marker(k)] = null])
    /\ UNCHANGED <<ledger, lastTx>>

\* onSuccess / onError of handleBuy's signAndExecuteTransaction.
handleBuy_settled == transaction_settled("buy")

NextBuy ==
    \/ \E listing \in ShownListings : handleBuy_begin(listing)
    \/ \E currentCoins \in SUBSET Coins : handleBuy_resume(currentCoins)
    \/ handleBuy_settled

SpecBuy == InitBuy /\ [][NextBuy]_vars

\* ---------------------------------------------------------------- C33 --
\* The value of the coin a buy_item call is given: the balance of a coin
\* passed whole, the amount of a coin split off.
PaymentValue(arg) ==
    IF arg.kind = "object" THEN CoinValue[arg.id] ELSE arg.value

\* C33: in the buy flow of the page the payment passed to buy_item is worth
\* exactly the price of the listing: the coin chosen is passed whole when
\* its balance is the price and split for exactly the price when its balance
\* is larger; and when handleBuy has found no coin with a balance of at
\* least the price it has handed over no transaction and buyingListingId is
\* null again.
C33_PaymentEqualsPrice ==
    /\ ui.tx # <<>> =>
          LET price   == ui.listing[1].price_micro_iota
              payment == ui.tx[1].arguments[2]
          IN /\ ui.tx[1].target = "marketplace::buy_item"
             /\ ui.tx[1].arguments[1] = tx_object("Listing", ui.listing[1].id)
             /\ payment.id \in ui.userCoins
             /\ PaymentValue(payment) = price
             /\ payment.kind = "object" <=> CoinValue[payment.id] = price
             /\ payment.kind = "result" <=> CoinValue[payment.id] > price
    /\ ( /\ ui.pc = "returned"
         /\ \A c \in ui.userCoins :
               CoinValue[c] < ui.listing[1].price_micro_iota )
       => (ui.tx = <<>> /\ ui.buyingListingId = null)
    /\ ui.pc = "signAndExecuteTransaction" => ui.tx # <<>>

\* A payment split off a larger coin has been handed to the wallet.
C33_Witness ==
    /\ ui.tx # <<>>
    /\ ui.tx[1].arguments[2].kind = "result"
    /\ CoinValue[ui.tx[1].arguments[2].id] > ui.listing[1].price_micro_iota

\* A coin of exactly the price has been handed over whole.
C33_ExactCoin ==
    /\ ui.tx # <<>>
    /\ ui.tx[1].arguments[2].kind = "object"
    /\ ui.listing[1].price_micro_iota > 0

\* The wallet holds coins, none of them covers the price, and handleBuy has
\* returned.
C33_Insufficient ==
    /\ ui.pc = "returned" /\ ui.userCoins # {}
    /\ \A c \in ui.userCoins : CoinValue[c] < ui.listing[1].price_micro_iota


\* ---------------------------------------- actions page: proof polling ----
\* ActionsPage for one action type.  React commits the state after each
\* stretch of code that runs without an await: the cleanup of the effect on
\* [actionStatuses] then runs with the actionStatuses of the render before,
\* and the effect is set up again with those of this render.

MaxSubmissions == 2       \* proofs the provider accepts in one visit

\* data.status of /api/v1/validation-result, "not_found" for a 404.
FinalStatuses    == {"complete", "failed", "error_processing"}
ProviderStatuses == {"not_found", "pending_verification"} \cup FinalStatuses

\* actionStatuses[actionType] after mount, with what lives outside React:
\* `timers` are the intervals setInterval has started and nothing has
\* cleared, `cleanup` is the pollingIntervalId the cleanup effect has in its
\* closure, `checks` are the validation ids with a checkStatus request in
\* flight and `provider` is the provider's record of each validation.
ActionsPage ==
    [page              |-> "actions",
     selectedFile      |-> FALSE,
     isVerifying       |-> FALSE,
     validationId      |-> null,
     pollingIntervalId |-> null,
     backendStatus     |-> "none",
     verifyError       |-> FALSE,
     canClaim          |-> FALSE,
     cleanup           |-> null,
     timers            |-> {},
     checks            |-> {},
     provider          |-> <<>>]

InitProof ==
    /\ Published
    /\ ui = ActionsPage

\* The cleanup effect (lines 248-258) around a commit of the state `next`:
\* clearInterval of the id in the closure, then a closure over `next`.
commit(next) ==
    [next EXCEPT !.timers  = next.timers \ {ui.cleanup},
                 !.cleanup = next.pollingIntervalId]

\* stopStatusPolling, on the state `status`.
stopStatusPolling(status) ==
    IF status.pollingIntervalId # null
    THEN [status EXCEPT !.timers = status.timers \ {status.pollingIntervalId},
                        !.pollingIntervalId = null]
    ELSE status

\* startStatusPolling, on the state `status`: the interval of the n-th
\* validation has id n.
startStatusPolling(status, validationId) ==
    [stopStatusPolling(status) EXCEPT
        !.timers = stopStatusPolling(status).timers \cup {validationId},
        !.pollingIntervalId = validationId]

\* The file input, enabled by line 490.
handleFileChange(file) ==
    /\ ~ui.isVerifying /\ ui.pollingIntervalId = null
    /\ ui' = commit([ui EXCEPT !.selectedFile = file, !.verifyError = FALSE])
    /\ UNCHANGED <<ledger, lastTx>>

\* handleSubmitProofs up to the answer of the provider; the button is
\* enabled by line 557.
handleSubmitProofs_begin ==
    /\ ui.selectedFile /\ ~ui.isVerifying /\ ui.pollingIntervalId = null
    /\ Len(ui.provider) < MaxSubmissions
    /\ ui' = commit([ui EXCEPT !.isVerifying = TRUE,
                               !.verifyError = FALSE,
                               !.canClaim = FALSE])
    /\ UNCHANGED <<ledger, lastTx>>

\* handleSubmitProofs from the answer of the provider: a validation id and
\* the start of the polling, or the catch.
handleSubmitProofs_response(ok) ==
    /\ ui.isVerifying
    /\ ui' = IF ok
             THEN commit(startStatusPolling(
                     [ui EXCEPT !.isVerifying = FALSE,
                                !.validationId = Len(ui.provider) + 1,
                                !.verifyError = FALSE,
                                !.provider = Append(ui.provider, "not_found")],
                     Len(ui.provider) + 1))
             ELSE commit([ui EXCEPT !.isVerifying = FALSE,
                                    !.verifyError = TRUE])
    /\ UNCHANGED <<ledger, lastTx>>

\* The callback of setInterval, every 5 seconds while the interval lives:
\* it starts a checkStatus and leaves the state as it is.
interval_tick(intervalId) ==
    /\ intervalId \in ui.timers
    /\ ui' = IF ui.validationId # null
             THEN [ui EXCEPT !.checks = ui.checks \cup {ui.validationId}]
             ELSE [ui EXCEPT !.timers = ui.timers \ {intervalId}]
    /\ UNCHANGED <<ledger, lastTx>>

\* The provider works on a validation: found, then one of the final states.
provider_advance(validationId) ==
    /\ validationId \in 1..Len(ui.provider)
    /\ \E s \in ProviderStatuses :
          /\ \/ ui.provider[validationId] = "not_found"
                  /\ s = "pending_verification"
             \/ ui.provider[validationId] = "pending_verification"
                  /\ s \in FinalStatuses
          /\ ui' = [ui EXCEPT !.provider[validationId] = s]
    /\ UNCHANGED <<ledger, lastTx>>

\* checkStatus from the answer of its fetch: "fetch_error" for the catch,
\* else the status the provider holds.
checkStatus(validationId, answer) ==
    /\ validationId \in ui.checks
    /\ answer \in {"fetch_error", ui.provider[validationId]}
    /\ LET received == [ui EXCEPT !.checks = ui.checks \ {validationId}]
       IN
       ui' = CASE answer = "fetch_error" ->
                    commit(stopStatusPolling(
                        [received EXCEPT !.verifyError = TRUE]))
               [] answer = "not_found" ->
                    commit(received)
               [] answer = "complete" ->
                    commit(stopStatusPolling(
                        [received EXCEPT !.backendStatus = answer,
                                         !.verifyError = FALSE,
                                         !.canClaim = TRUE]))
               [] answer \in {"failed", "error_processing"} ->
                    commit(stopStatusPolling(
                        [received EXCEPT !.backendStatus = answer,
                                         !.verifyError = TRUE,
                                         !.canClaim = FALSE]))
               [] OTHER ->
                    commit([received EXCEPT !.backendStatus = answer,
                                            !.verifyError = FALSE])
    /\ UNCHANGED <<ledger, lastTx>>

NextProof ==
    \/ \E file \in BOOLEAN : handleFileChange(file)
    \/ handleSubmitProofs_begin
    \/ \E ok \in BOOLEAN : handleSubmitProofs_response(ok)
    \/ \E intervalId \in 1..MaxSubmissions : interval_tick(intervalId)
    \/ \E validationId \in 1..MaxSubmissions : provider_advance(validationId)
    \/ \E validationId \in 1..MaxSubmissions, answer \in ProviderStatuses \cup {"fetch_error"} :
          checkStatus(validationId, answer)

SpecProof == InitProof /\ [][NextProof]_vars

\* ---------------------------------------------------------------- C34 --
\* C34 (as stated): once a proof is submitted the interval keeps polling
\* while the status reported is not final: it is stopped only by complete,
\* failed or error_processing or by a status check that fails, and
\* pollingIntervalId is never non-null without its interval running.
C34_AsStated ==
    /\ ui.pollingIntervalId # null => ui.pollingIntervalId \in ui.timers
    /\ (ui.validationId # null /\ ui.validationId \notin ui.timers)
          => (ui.backendStatus \in FinalStatuses \/ ui.verifyError)


\* --------------------------------------------- confirmation pollers ----
\* The buy and cancel flows of the Marketplace component and the retire
\* flow of My Assets, from the click to the end of the confirmation poller.

timeoutDuration == 60000  \* ms a poller waits for the confirmation
pollInterval    == 3000   \* ms between two callbacks of its interval

\* My Assets after mount, with the wallet of `account` connected.
MyAssetsPage(account) ==
    [page                      |-> "my-assets",
     account                   |-> account,
     retiringNftId             |-> null,
     retirementTxDigest        |-> null,
     isWaitingForRetireConfirm |-> FALSE,
     isTxPending               |-> FALSE,
     tx                        |-> <<>>,
     timers                    |-> {},
     ticks                     |-> [k \in FlowsOn("my-assets") |-> 0],
     requests                  |-> {}]

InitConfirm ==
    /\ Published
    /\ \E account \in Users :
          ui \in {MarketplacePage(account), MyAssetsPage(account)}

\* handleCancelListing up to the hand-over to the wallet; the button is
\* enabled by cancelButtonDisabled.
handleCancelListing_click(listing) ==
    /\ ui.page = "marketplace"
    /\ ~isProcessing
    /\ ui.cancellingListingId = null /\ ~ui.isTxPending
    /\ ui.account = listing.seller
    /\ ui' = pollerEffects([ui EXCEPT
                !.cancellingListingId = listing.id,
                !.cancelTxDigest = null,
                !.isWaitingForCancelConfirm = FALSE,
                !.isTxPending = TRUE,
                !.tx = <<handleCancelListing_tx(listing.id)>>])
    /\ UNCHANGED <<ledger, lastTx>>

\* handleRetire up to the hand-over to the wallet; the button is enabled
\* by `disabled={!!retiringNftId}`.
handleRetire_click(nftId) ==
    /\ ui.page = "my-assets"
    /\ ui.retiringNftId = null
    /\ ui' = pollerEffects([ui EXCEPT
                !.retiringNftId = nftId,
                !.retirementTxDigest = null,
                !.isWaitingForRetireConfirm = FALSE,
                !.isTxPending = TRUE,
                !.tx = <<handleRetire_tx(nftId)>>])
    /\ UNCHANGED <<ledger, lastTx>>

\* poller_finish that leaves the in-progress marker as it is.
poller_finish_MarkerKept(status, k) ==
    IF k = "retire"
    THEN [status EXCEPT ![Waiting(k)] = FALSE]
    ELSE [status EXCEPT !.timers = status.timers \ {k},
                        ![Waiting(k)] = FALSE,
                        ![Digest(k)] = null]

\* The end of a poller, on success, failure or timeout: the marketplace
\* pollers clear their interval and the digest themselves, the retire
\* poller leaves both to the cleanup of its effect.
poller_finish(status, k) ==
    IF k = "retire"
    THEN [status EXCEPT ![Waiting(k)] = FALSE, ![Marker(k)] = null]
    ELSE [status EXCEPT !.timers = status.timers \ {k},
                        ![Waiting(k)] = FALSE,
                        ![Digest(k)] = null,
                        ![Marker(k)] = null]

\* The n-th callback of an interval runs n * pollInterval ms after
\* startTime, or later.
timedOut(n, late) ==
    n * pollInterval + (IF late THEN 1 ELSE 0) > timeoutDuration

\* A callback of the interval of flow k: the timeout, or a status request.
poller_tick(k, late) ==
    /\ k \in FlowsOn(ui.page) /\ k \in ui.timers
    /\ ui' = IF timedOut(ui.ticks[k] + 1, late)
             THEN pollerEffects(poller_finish(ui, k))
             ELSE [ui EXCEPT !.ticks[k] = ui.ticks[k] + 1,
                             !.requests = ui.requests \cup {k}]
    /\ UNCHANGED <<ledger, lastTx>>

\* What a status request can come back with: effects.status.status, no
\* status yet, or a rejected promise.
PollAnswers == {"success", "failure", "undefined", "error"}

\* The continuation of a callback after `await getTransactionBlock`; `more`
\* when another request of the flow is still in flight.
poller_response(k, answer, more) ==
    /\ k \in FlowsOn(ui.page) /\ k \in ui.requests
    /\ LET received == IF more THEN ui
                       ELSE [ui EXCEPT !.requests = ui.requests \ {k}]
       IN ui' = IF answer \in {"success", "failure"}
                THEN pollerEffects(poller_finish(received, k))
                ELSE received
    /\ UNCHANGED <<ledger, lastTx>>

Flows == {"buy", "cancel", "retire"}

NextConfirm ==
    \/ \E listing \in ShownListings : handleBuy_begin(listing)
    \/ \E currentCoins \in SUBSET Coins : handleBuy_resume(currentCoins)
    \/ \E listing \in ShownListings : handleCancelListing_click(listing)
    \/ \E nftId \in 1..MaxShownListings : handleRetire_click(nftId)
    \/ \E k \in Flows : transaction_settled(k)
    \/ \E k \in Flows, late \in BOOLEAN : poller_tick(k, late)
    \/ \E k \in Flows, answer \in PollAnswers, more \in BOOLEAN :
          poller_response(k, answer, more)

SpecConfirm == InitConfirm /\ [][NextConfirm]_vars

\* The browser runs the callback of an interval for as long as it lives.
SpecConfirmFair ==
    SpecConfirm /\ \A k \in Flows : WF_vars(\E late \in BOOLEAN : poller_tick(k, late))


\* ---------------------------------------------------------------- C35 --
\* Flow k of the page in use is between its click and the end of its
\* poller: its handler is running, its transaction is with the wallet, or
\* its poller waits with a live interval.
InProgress(k) ==
    \/ k = "buy" /\ ui.pc = "fetchUserCoins"
    \/ ui.isTxPending /\ flowOf(ui.tx[1]) = k
    \/ ui[Waiting(k)] /\ ui[Digest(k)] # null /\ k \in ui.timers

\* The poller of flow k is not running.
Stopped(k) ==
    k \in FlowsOn(ui.page) => (~ui[Waiting(k)] /\ k \notin ui.timers)

\* A transaction is handed to the wallet in this step.
HandedOver ==
    /\ ui'.isTxPending
    /\ ~ui.isTxPending \/ ui'.tx # ui.tx

C35_BeforeTimeout ==
    /\ ui.page = "marketplace"
    /\ "cancel" \in ui.timers
    /\ (ui.ticks["cancel"] + 1) * pollInterval > timeoutDuration
    /\ ui.cancellingListingId # null


\* ------------------------------------ ListItemDialog: confirmation poll --
\* The dialog of My Assets from the digest of a listing transaction to the
\* end of its polling effect.

maxAttempts == 30         \* polls before the effect gives up
MaxInFlight == 2          \* getTransaction requests not yet answered

\* The dialog, opened for an NFT: `attempts` and `interval` are the
\* variables of the effect's closure, `requests` the polls waiting at their
\* await, `completions` the calls of onListingComplete made so far.
ListDialog ==
    [page                     |-> "list-dialog",
     open                     |-> TRUE,
     listingTxDigest          |-> null,
     isWaitingForConfirmation |-> FALSE,
     attempts                 |-> 0,
     interval                 |-> FALSE,
     requests                 |-> 0,
     completions              |-> 0]

InitListPoll ==
    /\ Published
    /\ ui = ListDialog

\* poll() up to its await: one more attempt, one more request.
poll_begin(dialog) ==
    [dialog EXCEPT !.attempts = dialog.attempts + 1,
                   !.requests = dialog.requests + 1]

\* onSuccess of handleList, and the effect its state change runs: the
\* immediate poll() and the interval.
handleList_onSuccess ==
    /\ ui.open /\ ui.listingTxDigest = null
    /\ ui' = poll_begin([ui EXCEPT !.listingTxDigest = txDigest,
                                   !.isWaitingForConfirmation = TRUE,
                                   !.interval = TRUE])
    /\ UNCHANGED <<ledger, lastTx>>

\* The interval calls poll, every 2 seconds while it lives.
poll_interval ==
    /\ ui.interval
    /\ ui.requests < MaxInFlight
    /\ ui' = poll_begin(ui)
    /\ UNCHANGED <<ledger, lastTx>>

\* handleListingComplete of My Assets: the dialog is closed and unmounted.
onListingComplete(dialog) ==
    [dialog EXCEPT !.completions = dialog.completions + 1,
                   !.open = FALSE]

\* poll() from its await: the receipt shows a block, or not yet, or the
\* request has failed.
poll_resume(answer) ==
    /\ ui.requests > 0
    /\ LET received == [ui EXCEPT !.requests = ui.requests - 1]
       IN ui' = IF answer = "success"
                THEN [onListingComplete(received) EXCEPT
                         !.isWaitingForConfirmation = FALSE,
                         !.interval = FALSE]
                ELSE IF received.attempts >= maxAttempts
                THEN [received EXCEPT !.isWaitingForConfirmation = FALSE,
                                      !.interval = FALSE]
                ELSE received
    /\ UNCHANGED <<ledger, lastTx>>

NextListPoll ==
    \/ handleList_onSuccess
    \/ poll_interval
    \/ \E answer \in {"success", "pending", "error"} : poll_resume(answer)

SpecListPoll == InitListPoll /\ [][NextListPoll]_vars

\* ---------------------------------------------------------------- C36 --
\* C36 (as stated): for one listing transaction the poller calls
\* onListingComplete at most once and makes at most maxAttempts attempts,
\* however the immediate poll, the interval polls and their answers
\* interleave.
C36_AsStated ==
    /\ ui.completions <= 1
    /\ ui.attempts <= maxAttempts


\* ------------------------------------------ ListItemDialog: the price ---
\* handleList from the text of the price input to the call it builds.

MaxFractionDigits == 7    \* digits typed after the point: 0..MaxFractionDigits

\* Texts of the price input: an integer part and any fraction of up to
\* MaxFractionDigits digits drawn from 0, 1 and 5.
DecimalInputs ==
    { Decimal(i, f) :
         i \in {<<0>>, <<1>>, <<1, 0>>},
         f \in UNION { [1..n -> {0, 1, 5}] : n \in 0..MaxFractionDigits } }

\* The dialog with a price typed in and nothing built yet.
InitUnits ==
    /\ Published
    /\ \E price \in DecimalInputs :
          ui = [page |-> "list-dialog", price |-> price, tx |-> <<>>]

\* handleList from its price checks to tx.moveCall.
handleList_build(nft_id) ==
    /\ ui.tx = <<>>
    /\ ~parseFloat_not_positive(ui.price)
    /\ toBaseUnits(ui.price, 6) > 0
    /\ ui' = [ui EXCEPT !.tx = <<handleList_tx(nft_id,
                                     toBaseUnits(ui.price, 6))>>]
    /\ UNCHANGED <<ledger, lastTx>>

NextUnits == \E nft_id \in 1..MaxShownListings : handleList_build(nft_id)

SpecUnits == InitUnits /\ [][NextUnits]_vars

\* ---------------------------------------------------------------- C37 --
RECURSIVE Pow10(_)
Pow10(n) == IF n = 0 THEN 1 ELSE 10 * Pow10(n - 1)

\* The price sent is the price typed times 10^6: with N the digits of the
\* text read as one number and d the digits after the point, N * 10^(6-d)
\* for d <= 6, and N / 10^(d-6), which has to be whole, for d > 6.
SentTimesMillion(price, sent) ==
    LET d == Len(price.fractionalPart)
        N == BigInt(price.integerPart \o price.fractionalPart)
    IN IF d <= 6
       THEN sent = N * Pow10(6 - d)
       ELSE N % Pow10(d - 6) = 0 /\ sent = N \div Pow10(d - 6)

\* C37 (as stated): the price handleList sends to list_item is the price
\* typed times 10^6, whatever the number of digits after the point.
C37_AsStated ==
    ui.tx # <<>> => SentTimesMillion(ui.price, ui.tx[1].arguments[2].value)

\* What does hold: with at most 6 digits after the point the price sent is
\* the price typed in microIOTA.
C37_UpToSixDigits ==
    (ui.tx # <<>> /\ Len(ui.price.fractionalPart) <= 6)
       => SentTimesMillion(ui.price, ui.tx[1].arguments[2].value)

=============================================================================
